---- MODULE Spec2Model ----
(***************************************************************************)
(* A model of grr (joyent/grr), the CLI that creates, updates and retires  *)
(* Gerrit code reviews from a local git branch: lib/grr.js, kept in        *)
(* src/lib/cli.js lines 605-2600.                                          *)
(*                                                                         *)
(* The world is the local git repository (current branch, branches, the   *)
(* per-branch grr keys of .git/config, the commits of each branch over     *)
(* master, the 'cr' remote), the grr cache file and the Gerrit server.     *)
(* One invocation of grrUpdateOrCreate or grrDelete is one action: the     *)
(* vasync pipeline is synchronous from the caller's point of view, so the  *)
(* action applies the pipeline's steps in order to a machine record        *)
(*     [w: world, arg: the pipeline's context object, err, log, faults]    *)
(* and stops at the first step that reports an error.  `log` lists the     *)
(* external commands the invocation ran; `faults` names the external       *)
(* commands that fail in this invocation.                                  *)
(***************************************************************************)
EXTENDS Integers, Sequences, FiniteSets, TLC

VARIABLES
    gitBranch,        \* the branch HEAD points to (git symbolic-ref HEAD)
    gitBranches,      \* the local branches (git branch --list)
    branchConfig,     \* .git/config: branch.<name>.<key> for the six grr keys
    gitLog,           \* per branch: its commits over master, newest first
    nextSha,          \* how many commits the user has made so far
    gerrit,           \* the CRs on cr.joyent.us, in order of creation
    grrConfigUsername, \* [gerrit] username of ~/.grr/config.toml, "" if unset
    grrCacheUsername, \* gerritUsername of the grr cache file, "" if unset
    gitRemoteUrlCr,   \* url of the 'cr' remote; NoRemote when there is none
    lastRun           \* what the invocation that just ended did and reported

vars == <<gitBranch, gitBranches, branchConfig, gitLog, nextSha, gerrit,
          grrConfigUsername, grrCacheUsername, gitRemoteUrlCr, lastRun>>

-----------------------------------------------------------------------------
(* Bounds of the model.                                                    *)

MaxCommits == 2      \* commits the user makes
MaxCRs == 1          \* CRs on the Gerrit server
MaxIssueBranches == 1 \* local branches besides master
MaxPatchSet == 2     \* patch sets of a CR
MaxApprovals == 1    \* votes on a patch set
MaxExtraArgs == 1    \* issues given to one -a or -r
MaxOptions == 1      \* options of one command line, the <issue> apart
MaxFaults == 1       \* external commands that fail in one invocation

-----------------------------------------------------------------------------
(* Constants of the program and of its environment.                        *)

MASTER == "master"
GERRIT_HOST == "cr.joyent.us"
RepoName == "joyent/grr"
GerritUser == "trentm"
NoRemote == "null"
ExpectedCrRemote == GerritUser \o "@cr.joyent.us:" \o RepoName \o ".git"

-----------------------------------------------------------------------------
(* Issues.  parseIssueArg turns a user-given <issue> into issueType,       *)
(* issueId and issueName, or fails.  The regular expressions of the code   *)
(* are applied here to a fixed vocabulary of arguments, one or more of     *)
(* each shape the code accepts and two it rejects.                         *)

JiraKeys == {"FOO-1", "FOO-2", "FOO-3"}

JiraUrlKey(issueArg) ==
    CASE issueArg = "https://jira.joyent.us/browse/FOO-2" -> "FOO-2"
      [] OTHER -> ""

GitHubNumbers == {"7"}

\* account/project#123: <<project, number>>
GitHubIdParts(issueArg) ==
    CASE issueArg = "joyent/grr#7" -> <<"joyent/grr", "7">>
      [] issueArg = "joyent/other#7" -> <<"joyent/other", "7">>
      [] OTHER -> <<>>

NoIssue == [issueType |-> "", issueId |-> "", issueName |-> ""]

\* The result of parseIssueArg(issue, repoName, issueArg, cb): the fields it
\* sets on `issue` and the error it calls back with ("" for none).
parseIssueArg(repoName, issueArg) ==
    IF issueArg \in JiraKeys
    THEN [err |-> "", issueType |-> "jira", issueId |-> issueArg,
          issueName |-> issueArg]
    ELSE IF JiraUrlKey(issueArg) # ""
    THEN [err |-> "", issueType |-> "jira", issueId |-> JiraUrlKey(issueArg),
          issueName |-> JiraUrlKey(issueArg)]
    ELSE IF issueArg \in GitHubNumbers
    THEN [err |-> "", issueType |-> "github", issueId |-> issueArg,
          issueName |-> repoName \o "#" \o issueArg]
    ELSE IF GitHubIdParts(issueArg) # <<>>
    THEN [err |-> IF GitHubIdParts(issueArg)[1] # repoName
                  THEN "project from <issue> does not match repo name"
                  ELSE "",
          issueType |-> "github", issueId |-> GitHubIdParts(issueArg)[2],
          issueName |-> issueArg]
    ELSE [err |-> "invalid <issue> arg", issueType |-> "", issueId |-> "",
          issueName |-> ""]

\* The issue tracker: the title getIssueTitle calls back with.
TrackerTitle(issueId) ==
    CASE issueId = "FOO-1" -> "fix thing"
      [] issueId = "FOO-2" -> "add node-triton support for bhyve"
      [] issueId = "FOO-3" -> "constant dhcp NAKs"
      [] issueId = "7" -> "testing 1 2 3 grr"
      [] OTHER -> ""

-----------------------------------------------------------------------------
(* The world and the pipeline's machine record.                            *)

IssueIds == JiraKeys \cup GitHubNumbers

\* Every branch name the model can come to hold.
BranchNames ==
    {MASTER, "feature"} \cup {"grr-" \o i : i \in IssueIds}
        \cup {"grr/" \o i : i \in IssueIds}
        \cup {"grr/auto/" \o i : i \in IssueIds}

ConfigKeys ==
    {"issue", "extraIssues", "title", "parenthetical", "lastPushedSha", "cr"}

\* No grr key set for a branch.  extraIssues holds the parsed JSON list; the
\* empty list stands for the unset key.
EmptyConfig ==
    [issue |-> "", extraIssues |-> <<>>, title |-> "", parenthetical |-> "",
     lastPushedSha |-> "", cr |-> ""]

World ==
    [gitBranch |-> gitBranch, gitBranches |-> gitBranches,
     branchConfig |-> branchConfig, gitLog |-> gitLog, gerrit |-> gerrit,
     grrCacheUsername |-> grrCacheUsername,
     gitRemoteUrlCr |-> gitRemoteUrlCr]

\* `arg.currentCr = null`
NullCr ==
    [project |-> "", number |-> "", commitMessage |-> <<>>,
     currentPatchSet |-> [number |-> 0, approvals |-> <<>>]]

\* `arg.commitsToPush`: undefined or null (isNull), or an array.
NullCommits == [isNull |-> TRUE, commits |-> <<>>]

\* The context object of grrUpdateOrCreate and grrDelete before the first
\* step; a field not yet set holds "" (or the empty list).
Context(opts) ==
    [issueArg |-> opts.issueArg,
     addExtraIssueArgs |-> opts.addExtraIssueArgs,
     removeExtraIssueArgs |-> opts.removeExtraIssueArgs,
     parenthetical |-> opts.parenthetical,
     extraIssues |-> <<>>,
     repoName |-> "", issueType |-> "", issueId |-> "", issueName |-> "",
     grrConfigUsername |-> "", grrCacheUsername |-> "",
     gerritUsername |-> "", gitBranch |-> "", gitRemoteUrlCr |-> NoRemote,
     branchConfigIssue |-> "", branchConfigTitle |-> "",
     branchConfigParenthetical |-> "", branchConfigLastPushedSha |-> "",
     branchConfigCr |-> "", issueTitle |-> "", issueBranch |-> "",
     gitCommits |-> <<>>, currentCr |-> NullCr, commitMessage |-> <<>>,
     commitsToPush |-> NullCommits, crAction |-> "", cr |-> "",
     lastPushedSha |-> ""]

Machine(w, opts, faults, cfgUsername) ==
    [w |-> w, arg |-> Context(opts), opts |-> opts, faults |-> faults,
     cfgUsername |-> cfgUsername, err |-> "", errs |-> <<>>, log |-> <<>>,
     cleanupErr |-> "", crashed |-> FALSE, operations |-> <<>>,
     pipelineErr |-> "", signals |-> <<>>]

\* vasync.pipeline: a step runs only if no earlier step called back with an
\* error.
Then(s, Step(_)) == IF s.err = "" THEN Step(s) ELSE s

\* A step of stepCreateUpdateCr's pipeline, or stepCreateUpdateCr itself,
\* calls `next`: the step's name and the error it passes, "" for none.
Signalled(s, step) == [s EXCEPT !.signals = Append(@, <<step, s.err>>)]

ThenSignalled(s, Step(_), step) ==
    IF s.err = "" THEN Signalled(Step(s), step) ELSE s

\* forkExecWait: the command is run (and logged); it fails if it is one of
\* this invocation's faults.
Ran(s, cmd) == [s EXCEPT !.log = Append(@, cmd)]
Failed(s, fault) == fault \in s.faults
Error(s, msg) == [s EXCEPT !.err = msg]

-----------------------------------------------------------------------------
(* The steps that read.                                                    *)

stepGetGitRemoteUrlOrigin(s) ==
    LET r == Ran(s, <<"git config --get", "remote.origin.url">>)
    IN  IF Failed(s, "origin") THEN Error(r, "git config failed") ELSE r

stepGetRepoName(s) == [s EXCEPT !.arg.repoName = RepoName]

stepValidateIssueArg(s) ==
    IF s.arg.issueArg = "" THEN s
    ELSE LET p == parseIssueArg(s.arg.repoName, s.arg.issueArg)
             a == [s.arg EXCEPT !.issueType = p.issueType,
                                !.issueId = p.issueId,
                                !.issueName = p.issueName]
         IN  [s EXCEPT !.arg = a, !.err = p.err]

stepGetGrrConfig(s) == [s EXCEPT !.arg.grrConfigUsername = s.cfgUsername]

stepGetGrrCache(s) ==
    [s EXCEPT !.arg.grrCacheUsername = s.w.grrCacheUsername]

stepGetGitBranch(s) ==
    LET r == Ran(s, <<"git symbolic-ref", "HEAD">>)
    IN  IF Failed(s, "symbolic-ref")
        THEN Error(r, "cannot determine current git branch")
        ELSE [r EXCEPT !.arg.gitBranch = s.w.gitBranch]

\* getBranchConfigKey(key, arg, cb): <<the machine after the call, val>>.
getBranchConfigKey(key, s) ==
    IF s.arg.gitBranch = MASTER
    THEN <<s, EmptyConfig[key]>>
    ELSE LET r == Ran(s, <<"git config --get", s.arg.gitBranch, key>>)
         IN  IF Failed(s, "get-" \o key)
             THEN <<Error(r, "git config failed"), EmptyConfig[key]>>
             ELSE <<r, s.w.branchConfig[s.arg.gitBranch][key]>>

stepGetBranchConfigIssue(s) ==
    LET g == getBranchConfigKey("issue", s)
    IN  IF g[1].err # "" THEN g[1]
        ELSE [g[1] EXCEPT !.arg.branchConfigIssue = g[2]]

\* The stored JSON list; an unset or blank value gives [].
stepGetBranchConfigExtraIssues(s) ==
    LET g == getBranchConfigKey("extraIssues", s)
    IN  IF g[1].err # "" THEN g[1]
        ELSE [g[1] EXCEPT !.arg.extraIssues =
                              IF Len(g[2]) = 0 THEN <<>> ELSE g[2]]

stepGetBranchConfigTitle(s) ==
    LET g == getBranchConfigKey("title", s)
    IN  IF g[1].err # "" THEN g[1]
        ELSE [g[1] EXCEPT !.arg.branchConfigTitle = g[2]]

stepGetBranchConfigParenthetical(s) ==
    LET g == getBranchConfigKey("parenthetical", s)
    IN  IF g[1].err # "" THEN g[1]
        ELSE [g[1] EXCEPT !.arg.branchConfigParenthetical = g[2]]

stepGetBranchConfigLastPushedSha(s) ==
    LET g == getBranchConfigKey("lastPushedSha", s)
    IN  IF g[1].err # "" THEN g[1]
        ELSE [g[1] EXCEPT !.arg.branchConfigLastPushedSha = g[2]]

stepGetBranchConfigCr(s) ==
    LET g == getBranchConfigKey("cr", s)
    IN  IF g[1].err # "" THEN g[1]
        ELSE [g[1] EXCEPT !.arg.branchConfigCr = g[2]]

\* config, then cache, then `ssh cr.joyent.us`, whose answer is cached.
stepGetGerritUsername(s) ==
    IF s.arg.grrConfigUsername # ""
    THEN [s EXCEPT !.arg.gerritUsername = s.arg.grrConfigUsername]
    ELSE IF s.arg.grrCacheUsername # ""
    THEN [s EXCEPT !.arg.gerritUsername = s.arg.grrCacheUsername]
    ELSE LET r == Ran(s, <<"ssh", GERRIT_HOST>>)
         IN  IF Failed(s, "ssh-username")
             THEN Error(r, "cannot determine your gerrit username")
             ELSE [Ran(r, <<"saveCacheSync", "gerritUsername", GerritUser>>)
                      EXCEPT !.arg.gerritUsername = GerritUser,
                             !.arg.grrCacheUsername = GerritUser,
                             !.w.grrCacheUsername = GerritUser]

stepGetGitRemotes(s) ==
    LET r == Ran(s, <<"git remote">>)
    IN  IF Failed(s, "git-remote") THEN Error(r, "git remote failed") ELSE r

stepGetGitRemoteUrlCr(s) ==
    IF s.w.gitRemoteUrlCr = NoRemote
    THEN [s EXCEPT !.arg.gitRemoteUrlCr = NoRemote]
    ELSE LET r == Ran(s, <<"git config --get", "remote.cr.url">>)
         IN  [r EXCEPT !.arg.gitRemoteUrlCr = s.w.gitRemoteUrlCr]

\* ensureIssueId without its first check: the <issue> argument wins over the
\* stored issue.
ensureIssueIdUnchecked(s) ==
    IF s.arg.issueId = "" /\ s.arg.branchConfigIssue = ""
    THEN IF s.arg.gitBranch = MASTER
         THEN Error(s, "missing <issue> argument")
         ELSE Error(s, "grr was not setup with an <issue> for this branch")
    ELSE IF s.arg.issueId = ""
    THEN LET p == parseIssueArg(s.arg.repoName, s.arg.branchConfigIssue)
             a == [s.arg EXCEPT !.issueType = p.issueType,
                                !.issueId = p.issueId,
                                !.issueName = p.issueName]
         IN  [s EXCEPT !.arg = a, !.err = p.err]
    ELSE s

\* ensureIssueId with one message for a missing issue, wherever it runs.
ensureIssueIdOneMessage(s) ==
    IF s.arg.issueId # "" /\ s.arg.branchConfigIssue # ""
          /\ s.arg.issueId # s.arg.branchConfigIssue
    THEN Error(s, "issue conflict")
    ELSE IF s.arg.issueId = "" /\ s.arg.branchConfigIssue = ""
    THEN Error(s, "missing <issue> argument")
    ELSE IF s.arg.issueId = ""
    THEN LET p == parseIssueArg(s.arg.repoName, s.arg.branchConfigIssue)
             a == [s.arg EXCEPT !.issueType = p.issueType,
                                !.issueId = p.issueId,
                                !.issueName = p.issueName]
         IN  [s EXCEPT !.arg = a, !.err = p.err]
    ELSE s

ensureIssueId(s) ==
    IF s.arg.issueId # "" /\ s.arg.branchConfigIssue # ""
          /\ s.arg.issueId # s.arg.branchConfigIssue
    THEN Error(s, "issue conflict")
    ELSE IF s.arg.issueId = "" /\ s.arg.branchConfigIssue = ""
    THEN IF s.arg.gitBranch = MASTER
         THEN Error(s, "missing <issue> argument")
         ELSE Error(s, "grr was not setup with an <issue> for this branch")
    ELSE IF s.arg.issueId = ""
    THEN LET p == parseIssueArg(s.arg.repoName, s.arg.branchConfigIssue)
             a == [s.arg EXCEPT !.issueType = p.issueType,
                                !.issueId = p.issueId,
                                !.issueName = p.issueName]
         IN  [s EXCEPT !.arg = a, !.err = p.err]
    ELSE s

-----------------------------------------------------------------------------
(* Extra issues.                                                           *)

ExtraIssue(issueId) ==
    [issueId |-> issueId, issueType |-> "", issueName |-> "",
     issueTitle |-> ""]

SelectSeqNotId(seq, issueId) ==
    LET Keep(item) == item.issueId # issueId IN SelectSeq(seq, Keep)

\* RemoveFrom without the check for the main issue.
RECURSIVE RemoveFromUnchecked(_, _)
RemoveFromUnchecked(s, i) ==
    IF i > Len(s.arg.removeExtraIssueArgs) THEN s
    ELSE LET p == parseIssueArg(s.arg.repoName, s.arg.removeExtraIssueArgs[i])
         IN  IF p.err # "" THEN Error(s, p.err)
             ELSE RemoveFromUnchecked(
                      [s EXCEPT !.arg.extraIssues =
                                    SelectSeqNotId(@, p.issueId)], i + 1)

\* vasync.forEachPipeline over removeExtraIssueArgs, from the i-th on.
RECURSIVE RemoveFrom(_, _)
RemoveFrom(s, i) ==
    IF i > Len(s.arg.removeExtraIssueArgs) THEN s
    ELSE LET p == parseIssueArg(s.arg.repoName, s.arg.removeExtraIssueArgs[i])
         IN  IF p.err # "" THEN Error(s, p.err)
             ELSE IF p.issueId = s.arg.issueId
             THEN Error(s, "cannot remove main issue")
             ELSE RemoveFrom(
                      [s EXCEPT !.arg.extraIssues =
                                    SelectSeqNotId(@, p.issueId)], i + 1)

\* stepRemoveExtraIssues removing nothing.
stepRemoveExtraIssuesSkipped(s) == s

stepRemoveExtraIssues(s) == RemoveFrom(s, 1)

\* The function stepParseExtraIssues gives to vasync.forEachParallel, for the
\* i-th extra issue: every function is started in input order, and its
\* synchronous part (parse, main-issue check, seenAlready) runs at once.
\* The result: [issues, seen, errs, log], errs being the errors called back.
RECURSIVE ParseFrom(_, _, _)
ParseFrom(s, i, acc) ==
    IF i > Len(acc.issues) THEN acc
    ELSE LET issue == acc.issues[i]
             p == parseIssueArg(s.arg.repoName, issue.issueId)
             parsed == [issue EXCEPT !.issueType = p.issueType,
                                     !.issueId = IF p.issueId = "" THEN @
                                                 ELSE p.issueId,
                                     !.issueName = p.issueName]
         IN  IF p.err # ""
             THEN ParseFrom(s, i + 1,
                      [acc EXCEPT !.issues[i] = parsed,
                                  !.errs = Append(@, p.err)])
             ELSE IF p.issueId = s.arg.issueId
             THEN ParseFrom(s, i + 1,
                      [acc EXCEPT !.issues[i] = parsed,
                           !.errs = Append(@,
                               "cannot add main issue as an extra issue")])
             ELSE IF p.issueId \in acc.seen
             THEN ParseFrom(s, i + 1,
                      [acc EXCEPT !.issues[i] = parsed,
                           !.errs = Append(@, "duplicate extra issue")])
             ELSE IF Failed(s, "fetch-" \o p.issueId)
             THEN ParseFrom(s, i + 1,
                      [acc EXCEPT !.issues[i] = parsed,
                           !.seen = @ \cup {p.issueId},
                           !.log = Append(@, <<"getIssueTitle", p.issueId>>),
                           !.errs = Append(@, "could not retrieve issue info")])
             ELSE ParseFrom(s, i + 1,
                      [acc EXCEPT
                           !.issues[i] =
                               [parsed EXCEPT !.issueTitle =
                                                  TrackerTitle(p.issueId)],
                           !.seen = @ \cup {p.issueId},
                           !.log = Append(@, <<"getIssueTitle", p.issueId>>)])

RECURSIVE AsExtraIssues(_)
AsExtraIssues(args) ==
    IF args = <<>> THEN <<>>
    ELSE <<ExtraIssue(Head(args))>> \o AsExtraIssues(Tail(args))

\* stepParseExtraIssues dropping the errors its functions call back with.
stepParseExtraIssuesLenient(s) ==
    LET pushed == s.arg.extraIssues \o AsExtraIssues(s.arg.addExtraIssueArgs)
        r == ParseFrom(s, 1, [issues |-> pushed, seen |-> {}, errs |-> <<>>,
                              log |-> s.log])
    IN  [s EXCEPT !.arg.extraIssues = r.issues, !.log = r.log]

\* stepParseExtraIssues taking the stored extra issues as they are and
\* looking up the added ones only.
stepParseExtraIssuesAddedOnly(s) ==
    LET r == ParseFrom(s, 1,
                 [issues |-> AsExtraIssues(s.arg.addExtraIssueArgs),
                  seen |-> {s.arg.extraIssues[i].issueId :
                               i \in 1..Len(s.arg.extraIssues)},
                  errs |-> <<>>, log |-> s.log])
    IN  [s EXCEPT !.arg.extraIssues = @ \o r.issues, !.log = r.log,
                  !.errs = r.errs,
                  !.err = IF r.errs = <<>> THEN "" ELSE r.errs[1]]

\* vasync.forEachParallel calls back with a MultiError of every error its
\* functions called back with, whose message is that of the first (errs,
\* err).
stepParseExtraIssues(s) ==
    LET pushed == s.arg.extraIssues \o AsExtraIssues(s.arg.addExtraIssueArgs)
        r == ParseFrom(s, 1, [issues |-> pushed, seen |-> {}, errs |-> <<>>,
                              log |-> s.log])
    IN  [s EXCEPT !.arg.extraIssues = r.issues, !.log = r.log,
                  !.errs = r.errs,
                  !.err = IF r.errs = <<>> THEN "" ELSE r.errs[1]]

\* The same function when the fetches are followed one by one: its
\* synchronous part calls back with an error, or starts getIssueTitle and
\* leaves the operation pending.  The result: [issues, seen, operations,
\* log], operations being vasync's record of each function's outcome.
RECURSIVE StartFrom(_, _, _)
StartFrom(s, i, acc) ==
    IF i > Len(acc.issues) THEN acc
    ELSE LET issue == acc.issues[i]
             p == parseIssueArg(s.arg.repoName, issue.issueId)
             parsed == [issue EXCEPT !.issueType = p.issueType,
                                     !.issueId = IF p.issueId = "" THEN @
                                                 ELSE p.issueId,
                                     !.issueName = p.issueName]
             failed(msg) == [acc EXCEPT !.issues[i] = parsed,
                                 !.operations =
                                     Append(@, [status |-> "fail",
                                                err |-> msg])]
         IN  IF p.err # "" THEN StartFrom(s, i + 1, failed(p.err))
             ELSE IF p.issueId = s.arg.issueId
             THEN StartFrom(s, i + 1,
                      failed("cannot add main issue as an extra issue"))
             ELSE IF p.issueId \in acc.seen
             THEN StartFrom(s, i + 1, failed("duplicate extra issue"))
             ELSE StartFrom(s, i + 1,
                      [acc EXCEPT
                           !.issues[i] = parsed,
                           !.seen = @ \cup {p.issueId},
                           !.log = Append(@, <<"getIssueTitle", p.issueId>>),
                           !.operations =
                               Append(@, [status |-> "pending",
                                          err |-> ""])])

\* stepParseExtraIssues up to the return of vasync.forEachParallel: the add
\* arguments are pushed and every function is started.
stepParseExtraIssuesStart(s) ==
    LET pushed == s.arg.extraIssues \o AsExtraIssues(s.arg.addExtraIssueArgs)
        r == StartFrom(s, 1, [issues |-> pushed, seen |-> {},
                              operations |-> <<>>, log |-> s.log])
    IN  [s EXCEPT !.arg.extraIssues = r.issues, !.log = r.log,
                  !.operations = r.operations]

\* forEachParallel reporting the error of its first function only.
forEachParallelFirstOnly(operations) ==
    IF operations # <<>> /\ operations[1].status = "fail"
    THEN <<operations[1].err>> ELSE <<>>

\* The errors of the MultiError: those of the failed operations, in input
\* order.
RECURSIVE forEachParallelErrors(_)
forEachParallelErrors(operations) ==
    IF operations = <<>> THEN <<>>
    ELSE (IF Head(operations).status = "fail"
          THEN <<Head(operations).err>> ELSE <<>>)
         \o forEachParallelErrors(Tail(operations))

\* forEachParallel calling stepParseExtraIssues' cb once every function has
\* called back.
stepParseExtraIssuesDone(s) ==
    LET errors == forEachParallelErrors(s.operations)
    IN  [s EXCEPT !.errs = errors,
                  !.err = IF errors = <<>> THEN "" ELSE errors[1]]

-----------------------------------------------------------------------------
(* The remote, the title, the issue branch and the stored keys.            *)

stepEnsureCrRemote(s) ==
    LET expectedCrRemote ==
            s.arg.gerritUsername \o "@cr.joyent.us:" \o s.arg.repoName
                \o ".git"
    IN  IF s.arg.gitRemoteUrlCr = NoRemote
        THEN LET r == Ran(s, <<"git remote add", "cr", expectedCrRemote>>)
             IN  IF Failed(s, "remote-add")
                 THEN Error(r, "git remote add failed")
                 ELSE [r EXCEPT !.w.gitRemoteUrlCr = expectedCrRemote]
        ELSE IF s.arg.gitRemoteUrlCr = ""
        THEN Error(Ran(s, <<"git remote cr set-url", expectedCrRemote>>),
                   "git remote failed")
        ELSE IF s.arg.gitRemoteUrlCr # expectedCrRemote
        THEN Error(s, "unexpected cr remote url")
        ELSE s

\* stepGetIssueTitle fetching the title whatever is stored.
stepGetIssueTitleAlways(s) ==
    LET r == Ran(s, <<"getIssueTitle", s.arg.issueId>>)
    IN  IF Failed(s, "fetch-" \o s.arg.issueId)
        THEN Error(r, "could not retrieve issue info")
        ELSE [r EXCEPT !.arg.issueTitle = TrackerTitle(s.arg.issueId)]

\* stepGetIssueTitle creating the issue branch before it fetches the title.
stepGetIssueTitleOnTheBranch(s) ==
    IF s.arg.branchConfigTitle # "" /\ ~s.opts.update
    THEN [s EXCEPT !.arg.issueTitle = s.arg.branchConfigTitle]
    ELSE LET b == "grr-" \o s.arg.issueId
             c == IF s.arg.gitBranch = MASTER /\ b \notin s.w.gitBranches
                  THEN [Ran(s, <<"git checkout -b", b>>)
                           EXCEPT !.w.gitBranches = @ \cup {b},
                                  !.w.gitBranch = b,
                                  !.w.gitLog[b] = <<>>]
                  ELSE s
             r == Ran(c, <<"getIssueTitle", s.arg.issueId>>)
         IN  IF Failed(s, "fetch-" \o s.arg.issueId)
             THEN Error(r, "could not retrieve issue info")
             ELSE [r EXCEPT !.arg.issueTitle = TrackerTitle(s.arg.issueId)]

stepGetIssueTitle(s) ==
    IF s.arg.branchConfigTitle # "" /\ ~s.opts.update
    THEN [s EXCEPT !.arg.issueTitle = s.arg.branchConfigTitle]
    ELSE LET r == Ran(s, <<"getIssueTitle", s.arg.issueId>>)
         IN  IF Failed(s, "fetch-" \o s.arg.issueId)
             THEN Error(r, "could not retrieve issue info")
             ELSE [r EXCEPT !.arg.issueTitle = TrackerTitle(s.arg.issueId)]

\* stepEnsureOnIssueBranch keeping the branch grr started on as issueBranch.
stepEnsureOnIssueBranchStale(s) ==
    IF s.arg.gitBranch # MASTER
    THEN [s EXCEPT !.arg.issueBranch = s.arg.gitBranch]
    ELSE LET b == "grr-" \o s.arg.issueId
             r == [Ran(s, <<"git checkout -b", b>>)
                      EXCEPT !.arg.issueBranch = s.arg.gitBranch]
         IN  IF b \in s.w.gitBranches
             THEN Error(r, "a branch with that name already exists")
             ELSE IF Failed(s, "checkout-b")
             THEN Error(r, "git checkout failed")
             ELSE [r EXCEPT !.w.gitBranches = @ \cup {b},
                            !.w.gitBranch = b,
                            !.w.gitLog[b] = <<>>]

\* stepEnsureOnIssueBranch insisting on a branch named 'grr-<id>'.
stepEnsureOnIssueBranchConventional(s) ==
    LET b == "grr-" \o s.arg.issueId
        r == [Ran(s, <<"git checkout -b", b>>) EXCEPT !.arg.issueBranch = b]
    IN  IF s.arg.gitBranch = b
        THEN [s EXCEPT !.arg.issueBranch = s.arg.gitBranch]
        ELSE IF b \in s.w.gitBranches
        THEN Error(r, "a branch with that name already exists")
        ELSE [r EXCEPT !.w.gitBranches = @ \cup {b},
                       !.w.gitBranch = b,
                       !.w.gitLog[b] = <<>>]

\* stepEnsureOnIssueBranch switching to the branch when it exists already.
stepEnsureOnIssueBranchReusing(s) ==
    IF s.arg.gitBranch # MASTER
    THEN [s EXCEPT !.arg.issueBranch = s.arg.gitBranch]
    ELSE LET b == "grr-" \o s.arg.issueId
             r == [Ran(s, <<"git checkout -b", b>>)
                      EXCEPT !.arg.issueBranch = b]
         IN  IF b \in s.w.gitBranches
             THEN [Ran(r, <<"git checkout", b>>) EXCEPT !.w.gitBranch = b]
             ELSE IF Failed(s, "checkout-b")
             THEN Error(r, "git checkout failed")
             ELSE [r EXCEPT !.w.gitBranches = @ \cup {b},
                            !.w.gitBranch = b,
                            !.w.gitLog[b] = <<>>]

stepEnsureOnIssueBranch(s) ==
    IF s.arg.gitBranch # MASTER
    THEN [s EXCEPT !.arg.issueBranch = s.arg.gitBranch]
    ELSE LET b == "grr-" \o s.arg.issueId
             r == [Ran(s, <<"git checkout -b", b>>)
                      EXCEPT !.arg.issueBranch = b]
         IN  IF b \in s.w.gitBranches
             THEN Error(r, "a branch with that name already exists")
             ELSE IF Failed(s, "checkout-b")
             THEN Error(r, "git checkout failed")
             ELSE [r EXCEPT !.w.gitBranches = @ \cup {b},
                            !.w.gitBranch = b,
                            !.w.gitLog[b] = <<>>]

setBranchConfigKey(key, val, s) ==
    LET r == Ran(s, <<"git config --set", s.arg.issueBranch, key>>)
    IN  IF Failed(s, "set-" \o key)
        THEN Error(r, "git config failed")
        ELSE [r EXCEPT !.w.branchConfig[s.arg.issueBranch][key] = val]

stepSetBranchConfigCr(s) ==
    IF s.arg.branchConfigCr = s.arg.cr THEN s
    ELSE setBranchConfigKey("cr", s.arg.cr,
             [s EXCEPT !.arg.branchConfigCr = s.arg.cr])

\* stepSetBranchConfigLastPushedSha taking the sha to be stored already.
stepSetBranchConfigLastPushedShaSkipped(s) == s

stepSetBranchConfigLastPushedSha(s) ==
    IF s.arg.branchConfigLastPushedSha = s.arg.lastPushedSha THEN s
    ELSE setBranchConfigKey("lastPushedSha", s.arg.lastPushedSha,
             [s EXCEPT !.arg.branchConfigLastPushedSha = s.arg.lastPushedSha])

\* stepSetBranchConfigIssue with its test inverted: it writes when the
\* stored issue is the issue already.
stepSetBranchConfigIssueInverted(s) ==
    IF s.arg.branchConfigIssue # s.arg.issueId THEN s
    ELSE setBranchConfigKey("issue", s.arg.issueId,
             [s EXCEPT !.arg.branchConfigIssue = s.arg.issueId])

stepSetBranchConfigIssue(s) ==
    IF s.arg.branchConfigIssue = s.arg.issueId THEN s
    ELSE setBranchConfigKey("issue", s.arg.issueId,
             [s EXCEPT !.arg.branchConfigIssue = s.arg.issueId])

stepSetBranchConfigTitle(s) ==
    IF s.arg.branchConfigTitle = s.arg.issueTitle THEN s
    ELSE setBranchConfigKey("title", s.arg.issueTitle,
             [s EXCEPT !.arg.branchConfigTitle = s.arg.issueTitle])

\* stepSetBranchConfigExtraIssues adding the list to the one stored.
stepSetBranchConfigExtraIssuesAppending(s) ==
    IF Len(s.arg.extraIssues) > 0
    THEN setBranchConfigKey("extraIssues",
             s.w.branchConfig[s.arg.issueBranch].extraIssues
                 \o s.arg.extraIssues, s)
    ELSE s

\* JSON.stringify(arg.extraIssues), written whenever the list is not empty.
stepSetBranchConfigExtraIssues(s) ==
    IF Len(s.arg.extraIssues) > 0
    THEN setBranchConfigKey("extraIssues", s.arg.extraIssues, s)
    ELSE s

\* stepSetBranchConfigParenthetical storing whatever the command line gave,
\* nothing included.
stepSetBranchConfigParentheticalAlways(s) ==
    IF s.arg.branchConfigParenthetical = s.arg.parenthetical
    THEN s
    ELSE setBranchConfigKey("parenthetical", s.arg.parenthetical,
             [s EXCEPT !.arg.branchConfigParenthetical =
                           s.arg.parenthetical])

stepSetBranchConfigParenthetical(s) ==
    IF s.arg.parenthetical = ""
          \/ s.arg.branchConfigParenthetical = s.arg.parenthetical
    THEN s
    ELSE setBranchConfigKey("parenthetical", s.arg.parenthetical,
             [s EXCEPT !.arg.branchConfigParenthetical =
                           s.arg.parenthetical])

-----------------------------------------------------------------------------
(* Local commits, the current CR and the commit message.                   *)

\* `git log --pretty=medium master..` on HEAD, newest commit first.
stepGetGitCommits(s) ==
    LET r == Ran(s, <<"git log", MASTER \o "..">>)
    IN  IF Failed(s, "git-log") THEN Error(r, "git log failed")
        ELSE [r EXCEPT !.arg.gitCommits = s.w.gitLog[s.w.gitBranch]]

\* The first line of `gerrit query <number>`: the CR of that number, or the
\* stats row (which has no project) when there is none.
GerritQuery(crs, number) ==
    IF \E i \in 1..Len(crs) : crs[i].number = number
    THEN crs[CHOOSE i \in 1..Len(crs) : crs[i].number = number]
    ELSE NullCr

\* stepGetCurrentCr taking whatever record the query returns.
QueryCurrentCrUnchecked(s, fault) ==
    IF s.arg.branchConfigCr = ""
    THEN [s EXCEPT !.arg.currentCr = NullCr]
    ELSE LET r == Ran(s, <<"ssh gerrit query", s.arg.branchConfigCr>>)
             found == GerritQuery(s.w.gerrit, s.arg.branchConfigCr)
             hit == IF Failed(s, fault \o "-other-project")
                    THEN [found EXCEPT !.project = "joyent/other"]
                    ELSE IF Failed(s, fault \o "-other-number")
                    THEN [found EXCEPT !.number = "1"]
                    ELSE found
         IN  IF Failed(s, fault) THEN Error(r, "ssh failed")
             ELSE [r EXCEPT !.arg.currentCr = hit]

QueryCurrentCr(s, fault) ==
    IF s.arg.branchConfigCr = ""
    THEN [s EXCEPT !.arg.currentCr = NullCr]
    ELSE LET r == Ran(s, <<"ssh gerrit query", s.arg.branchConfigCr>>)
             found == GerritQuery(s.w.gerrit, s.arg.branchConfigCr)
             hit == IF Failed(s, fault \o "-other-project")
                    THEN [found EXCEPT !.project = "joyent/other"]
                    ELSE IF Failed(s, fault \o "-other-number")
                    THEN [found EXCEPT !.number = "1"]
                    ELSE found
         IN  IF Failed(s, fault) THEN Error(r, "ssh failed")
             ELSE IF hit.project # s.arg.repoName
             THEN Error(r, "gerrit query returned a hit for another project")
             ELSE IF hit.number # s.arg.branchConfigCr
             THEN Error(r, "gerrit query returned a hit for another CR")
             ELSE [r EXCEPT !.arg.currentCr = hit]

\* stepGetCurrentCr in grrUpdateOrCreate's pipeline.
stepGetCurrentCr(s) == QueryCurrentCr(s, "query")

\* format('Reviewed by: %s <%s>', a.by.name, a.by.email)
TrailerLine(label, a) ==
    label \o ": " \o a.by.name \o " <" \o a.by.email \o ">"

\* The test as it was before 1.5.2: any Code-Review vote.
IsReviewedByAnyValue(a) == a.type = "Code-Review"

IsReviewedBy(a) == a.type = "Code-Review" /\ a.value = "1"
IsApprovedBy(a) == a.type = "Integration-Approval" /\ a.value = "1"

\* The first approvals.forEach.
RECURSIVE ReviewedByLines(_)
ReviewedByLines(approvals) ==
    IF approvals = <<>> THEN <<>>
    ELSE (IF IsReviewedBy(Head(approvals))
          THEN <<TrailerLine("Reviewed by", Head(approvals))>> ELSE <<>>)
         \o ReviewedByLines(Tail(approvals))

\* The second approvals.forEach.
RECURSIVE ApprovedByLines(_)
ApprovedByLines(approvals) ==
    IF approvals = <<>> THEN <<>>
    ELSE (IF IsApprovedBy(Head(approvals))
          THEN <<TrailerLine("Approved by", Head(approvals))>> ELSE <<>>)
         \o ApprovedByLines(Tail(approvals))

\* approvalMsgs with the two loops in the other order.
approvalMsgsApprovedFirst(approvals) ==
    ApprovedByLines(approvals) \o ReviewedByLines(approvals)

approvalMsgs(approvals) ==
    ReviewedByLines(approvals) \o ApprovedByLines(approvals)

RECURSIVE ExtraIssueLines(_)
ExtraIssueLines(extraIssues) ==
    IF extraIssues = <<>> THEN <<>>
    ELSE <<Head(extraIssues).issueName \o " " \o Head(extraIssues).issueTitle>>
         \o ExtraIssueLines(Tail(extraIssues))

\* The message as its lines (the code joins them with '\n').
CommitMessage(issueName, issueTitle, parenthetical, extraIssues, currentCr) ==
    <<issueName \o " " \o issueTitle
        \o (IF parenthetical # "" THEN " (" \o parenthetical \o ")" ELSE "")>>
    \o ExtraIssueLines(extraIssues)
    \o approvalMsgs(currentCr.currentPatchSet.approvals)

stepGetCommitMessage(s) ==
    [s EXCEPT !.arg.commitMessage =
        CommitMessage(s.arg.issueName, s.arg.issueTitle,
                      s.arg.branchConfigParenthetical, s.arg.extraIssues,
                      s.arg.currentCr)]

\* String.prototype.trim on a message given as its lines: blank lines at
\* either end go.
RECURSIVE TrimEnd(_)
TrimEnd(lines) ==
    IF lines # <<>> /\ lines[Len(lines)] = ""
    THEN TrimEnd(SubSeq(lines, 1, Len(lines) - 1)) ELSE lines

RECURSIVE TrimStart(_)
TrimStart(lines) ==
    IF lines # <<>> /\ Head(lines) = "" THEN TrimStart(Tail(lines)) ELSE lines

Trim(lines) == TrimStart(TrimEnd(lines))

-----------------------------------------------------------------------------
(* Commits to push and the action.                                         *)

\* The loop breaking one commit late: the commit lastPushedSha names is
\* taken too.
RECURSIVE CommitsUpTo(_, _)
CommitsUpTo(gitCommits, lastPushedSha) ==
    IF gitCommits = <<>> THEN <<>>
    ELSE IF lastPushedSha # Head(gitCommits).sha
    THEN <<Head(gitCommits)>> \o CommitsUpTo(Tail(gitCommits), lastPushedSha)
    ELSE <<Head(gitCommits)>>

\* The loop of getCommitsToPush: the commits before the one lastPushedSha
\* names.
RECURSIVE CommitsBefore(_, _)
CommitsBefore(gitCommits, lastPushedSha) ==
    IF gitCommits = <<>> THEN <<>>
    ELSE IF lastPushedSha # Head(gitCommits).sha
    THEN <<Head(gitCommits)>> \o CommitsBefore(Tail(gitCommits), lastPushedSha)
    ELSE <<>>

CommitsToPush(gitCommits, branchConfigLastPushedSha) ==
    IF Len(gitCommits) = 0
          \/ (branchConfigLastPushedSha # ""
                 /\ branchConfigLastPushedSha = gitCommits[1].sha)
    THEN NullCommits
    ELSE [isNull |-> FALSE,
          commits |-> CommitsBefore(gitCommits, branchConfigLastPushedSha)]

getCommitsToPush(s) ==
    [s EXCEPT !.arg.commitsToPush =
        CommitsToPush(s.arg.gitCommits, s.arg.branchConfigLastPushedSha)]

\* The decision comparing the two messages as they are, untrimmed.
CrActionUntrimmed(commitsToPush, currentCr, commitMessage) ==
    IF ~commitsToPush.isNull /\ Len(commitsToPush.commits) > 0
    THEN IF currentCr # NullCr THEN "update" ELSE "create"
    ELSE IF currentCr # NullCr /\ currentCr.commitMessage # commitMessage
    THEN "updateCommitMessage"
    ELSE "none"

\* The decision taking a branch without a CR for one to create, commits or
\* none.
CrActionCreateAlways(commitsToPush, currentCr, commitMessage) ==
    IF currentCr = NullCr THEN "create"
    ELSE IF ~commitsToPush.isNull /\ Len(commitsToPush.commits) > 0
    THEN "update"
    ELSE IF Trim(currentCr.commitMessage) # Trim(commitMessage)
    THEN "updateCommitMessage"
    ELSE "none"

CrAction(commitsToPush, currentCr, commitMessage) ==
    IF ~commitsToPush.isNull /\ Len(commitsToPush.commits) > 0
    THEN IF currentCr # NullCr THEN "update" ELSE "create"
    ELSE IF currentCr # NullCr
            /\ Trim(currentCr.commitMessage) # Trim(commitMessage)
    THEN "updateCommitMessage"
    ELSE "none"

-----------------------------------------------------------------------------
(* Gerrit, as far as grr sees it.                                          *)

Digits == <<"1", "2", "3", "4", "5", "6", "7", "8", "9">>

\* The number Gerrit gives the n-th CR, as `git push` prints it.
CrNumber(n) == "27" \o Digits[n]

\* `git push cr HEAD:refs/for/master`: a new CR whose first patch set is the
\* pushed commit.  git ends the message of `git commit -m` with a newline.
GerritCreate(crs, message) ==
    Append(crs, [project |-> RepoName, number |-> CrNumber(Len(crs) + 1),
                 commitMessage |-> message \o <<"">>,
                 currentPatchSet |-> [number |-> 1, approvals |-> <<>>]])

\* `git push cr HEAD:refs/changes/<number>`: a new patch set of that CR.
GerritUpdate(crs, number, message) ==
    [i \in 1..Len(crs) |->
        IF crs[i].number = number
        THEN [crs[i] EXCEPT !.commitMessage = message \o <<"">>,
                            !.currentPatchSet.number = @ + 1]
        ELSE crs[i]]

-----------------------------------------------------------------------------
(* stepCreateUpdateCr.                                                     *)

grrAutoBranch(s) == "grr/auto/" \o s.arg.issueId

getBranches(s) == Ran(s, <<"git branch --list">>)

squashDeleteStale(s) ==
    IF grrAutoBranch(s) \notin s.w.gitBranches THEN s
    ELSE LET r == Ran(s, <<"git branch -D", grrAutoBranch(s)>>)
         IN  IF s.w.gitBranch = grrAutoBranch(s)
             THEN Error(r, "cannot delete the checked out branch")
             ELSE [r EXCEPT !.w.gitBranches = @ \ {grrAutoBranch(s)},
                            !.w.gitLog[grrAutoBranch(s)] = <<>>]

squashCheckout(s) ==
    LET r == Ran(s, <<"git checkout -t -b", MASTER, grrAutoBranch(s)>>)
    IN  IF Failed(s, "squash-checkout") THEN Error(r, "git checkout failed")
        ELSE [r EXCEPT !.w.gitBranches = @ \cup {grrAutoBranch(s)},
                       !.w.gitBranch = grrAutoBranch(s),
                       !.w.gitLog[grrAutoBranch(s)] = <<>>]

squashMerge(s) ==
    LET r == Ran(s, <<"git merge --squash", s.arg.issueBranch>>)
    IN  IF Failed(s, "squash-merge") THEN Error(r, "git merge failed") ELSE r

squashCommit(s) ==
    LET r == Ran(s, <<"git commit --author", s.arg.gitCommits[1].author>>)
    IN  IF Failed(s, "squash-commit") THEN Error(r, "git commit failed")
        ELSE [r EXCEPT !.w.gitLog[grrAutoBranch(s)] =
                  <<[sha |-> "squash", author |-> s.arg.gitCommits[1].author,
                     message |-> "squash"]>>]

squashEm(s) ==
    Then(Then(Then(squashDeleteStale(s), squashCheckout), squashMerge),
         squashCommit)

\* pushIt taking every push for the first one.
pushItAsNew(s) ==
    LET r == Ran(s, <<"git push", "cr", "HEAD:refs/for/master">>)
        pushed == [r EXCEPT !.w.gerrit =
                       GerritCreate(@, s.arg.commitMessage)]
    IN  IF Failed(s, "push") THEN Error(r, "git push failed")
        ELSE IF Failed(s, "push-output")
        THEN Error(pushed, "could not determine created CR num")
        ELSE stepSetBranchConfigCr(
                 [pushed EXCEPT !.arg.cr = CrNumber(Len(s.w.gerrit) + 1)])

pushIt(s) ==
    IF s.arg.branchConfigCr # ""
    THEN LET r == Ran(s, <<"git push", "cr",
                           "HEAD:refs/changes/" \o s.arg.branchConfigCr>>)
         IN  IF Failed(s, "push") THEN Error(r, "git push failed")
             ELSE [r EXCEPT !.w.gerrit =
                       GerritUpdate(@, s.arg.branchConfigCr,
                                    s.arg.commitMessage)]
    ELSE LET r == Ran(s, <<"git push", "cr", "HEAD:refs/for/master">>)
             pushed == [r EXCEPT !.w.gerrit =
                            GerritCreate(@, s.arg.commitMessage)]
         IN  IF Failed(s, "push") THEN Error(r, "git push failed")
             ELSE IF Failed(s, "push-output")
             THEN Error(pushed, "could not determine created CR num")
             ELSE stepSetBranchConfigCr(
                      [pushed EXCEPT !.arg.cr =
                                         CrNumber(Len(s.w.gerrit) + 1)])

\* setLastPushedSha taking the oldest commit for the newest.
setLastPushedShaOldest(s) ==
    [s EXCEPT !.arg.lastPushedSha =
                  s.arg.gitCommits[Len(s.arg.gitCommits)].sha]

setLastPushedSha(s) ==
    [s EXCEPT !.arg.lastPushedSha = s.arg.gitCommits[1].sha]

RECURSIVE Shas(_)
Shas(commits) ==
    IF commits = <<>> THEN <<>>
    ELSE <<Head(commits).sha>> \o Shas(Tail(commits))

\* addCommitMessagesToCr commenting whether or not there are commits to
\* push.
addCommitMessagesToCrAlways(s) ==
    LET r == Ran(s, <<"ssh gerrit review", s.arg.branchConfigCr,
                      Digits[s.arg.currentCr.currentPatchSet.number]>>
                      \o Shas(s.arg.commitsToPush.commits))
    IN  IF Failed(s, "comment") THEN Error(r, "ssh failed") ELSE r

addCommitMessagesToCr(s) ==
    IF s.arg.commitsToPush.isNull THEN s
    ELSE LET r == Ran(s, <<"ssh gerrit review", s.arg.branchConfigCr,
                           Digits[s.arg.currentCr.currentPatchSet.number]>>
                           \o Shas(s.arg.commitsToPush.commits))
         IN  IF Failed(s, "comment") THEN Error(r, "ssh failed") ELSE r

\* The pipeline's final callback skipped whenever the pipeline failed.
cleanUpOnSuccess(s) ==
    LET c1 == Ran(s, <<"git checkout", s.arg.issueBranch>>)
        c2 == Ran([c1 EXCEPT !.w.gitBranch = s.arg.issueBranch],
                  <<"git branch -D", grrAutoBranch(s)>>)
        done ==
            IF Failed(s, "cleanup-checkout")
            THEN [c1 EXCEPT !.cleanupErr = "git checkout failed"]
            ELSE IF Failed(s, "cleanup-delete")
                    \/ grrAutoBranch(s) \notin c2.w.gitBranches
                    \/ grrAutoBranch(s) = c2.w.gitBranch
            THEN [c2 EXCEPT !.cleanupErr = "git branch failed"]
            ELSE [c2 EXCEPT !.w.gitBranches = @ \ {grrAutoBranch(s)},
                            !.w.gitLog[grrAutoBranch(s)] = <<>>]
    IN  IF s.err # "" THEN s ELSE [done EXCEPT !.err = done.cleanupErr]

\* The pipeline's final callback with the clean up's error reported in
\* place of the pipeline's own.
cleanUpMasking(s) ==
    LET p == [s EXCEPT !.pipelineErr = s.err]
        c1 == Ran(p, <<"git checkout", s.arg.issueBranch>>)
        c2 == Ran([c1 EXCEPT !.w.gitBranch = s.arg.issueBranch],
                  <<"git branch -D", grrAutoBranch(s)>>)
        done ==
            IF Failed(s, "cleanup-checkout")
            THEN [c1 EXCEPT !.cleanupErr = "git checkout failed"]
            ELSE IF Failed(s, "cleanup-delete")
                    \/ grrAutoBranch(s) \notin c2.w.gitBranches
                    \/ grrAutoBranch(s) = c2.w.gitBranch
            THEN [c2 EXCEPT !.cleanupErr = "git branch failed"]
            ELSE [c2 EXCEPT !.w.gitBranches = @ \ {grrAutoBranch(s)},
                            !.w.gitLog[grrAutoBranch(s)] = <<>>]
    IN  IF done.cleanupErr # "" THEN [done EXCEPT !.err = done.cleanupErr]
        ELSE done

\* The pipeline's final callback: check out the issue branch, delete the
\* grr/auto branch (git refuses to delete an absent branch and the one
\* checked out); the pipeline's own error (err, kept as pipelineErr) wins
\* over the clean up's.
cleanUp(s) ==
    LET p == [s EXCEPT !.pipelineErr = s.err]
        c1 == Ran(p, <<"git checkout", s.arg.issueBranch>>)
        c2 == Ran([c1 EXCEPT !.w.gitBranch = s.arg.issueBranch],
                  <<"git branch -D", grrAutoBranch(s)>>)
        done ==
            IF Failed(s, "cleanup-checkout")
            THEN [c1 EXCEPT !.cleanupErr = "git checkout failed"]
            ELSE IF Failed(s, "cleanup-delete")
                    \/ grrAutoBranch(s) \notin c2.w.gitBranches
                    \/ grrAutoBranch(s) = c2.w.gitBranch
            THEN [c2 EXCEPT !.cleanupErr = "git branch failed"]
            ELSE [c2 EXCEPT !.w.gitBranches = @ \ {grrAutoBranch(s)},
                            !.w.gitLog[grrAutoBranch(s)] = <<>>]
    IN  Signalled(IF s.err # "" THEN done
                  ELSE [done EXCEPT !.err = done.cleanupErr],
                  "stepCreateUpdateCr")

requeryCurrentCr(s) == QueryCurrentCr(s, "requery")

\* The steps of stepCreateUpdateCr's pipeline after getBranches; printOpener
\* only prints.
afterGetBranches(s) ==
    ThenSignalled(ThenSignalled(ThenSignalled(ThenSignalled(ThenSignalled(
        ThenSignalled(Signalled(s, "printOpener"),
            squashEm, "squashEm"), pushIt, "pushIt"),
            setLastPushedSha, "setLastPushedSha"),
            stepSetBranchConfigLastPushedSha,
            "stepSetBranchConfigLastPushedSha"),
            requeryCurrentCr, "stepGetCurrentCr"),
            addCommitMessagesToCr, "addCommitMessagesToCr")

stepCreateUpdateCr(s) ==
    LET t == [s EXCEPT !.arg.crAction =
                  CrAction(s.arg.commitsToPush, s.arg.currentCr,
                           s.arg.commitMessage)]
    IN  IF t.arg.crAction = "none" THEN t
        ELSE IF Len(s.arg.gitCommits) = 0
        \* arg.gitCommits[0].meta throws
        THEN [t EXCEPT !.err = "TypeError", !.crashed = TRUE]
        ELSE cleanUp(Then(Signalled(getBranches(t), "getBranches"),
                          afterGetBranches))

-----------------------------------------------------------------------------
(* The two commands.                                                       *)

\* The steps of grrUpdateOrCreate before stepParseExtraIssues.
beforeParseExtraIssues(w, opts, faults, cfgUsername) ==
    LET s0 == Machine(w, opts, faults, cfgUsername)
        s1 == Then(Then(Then(Then(Then(stepGetGitRemoteUrlOrigin(s0),
                  stepGetRepoName), stepValidateIssueArg), stepGetGrrConfig),
                  stepGetGrrCache), stepGetGitBranch)
        s2 == Then(Then(Then(Then(Then(s1,
                  stepGetBranchConfigIssue), stepGetBranchConfigExtraIssues),
                  stepGetGerritUsername), stepGetGitRemotes),
                  stepGetGitRemoteUrlCr)
    IN  Then(Then(s2, ensureIssueId), stepRemoveExtraIssues)

\* The steps of grrUpdateOrCreate from stepGetBranchConfigTitle up to
\* getCommitsToPush.
beforeCreateUpdateCr(s3) ==
    LET s4 == Then(Then(Then(Then(Then(Then(s3,
                  stepGetBranchConfigTitle), stepGetBranchConfigParenthetical),
                  stepGetBranchConfigLastPushedSha), stepGetBranchConfigCr),
                  stepEnsureCrRemote), stepGetIssueTitle)
        s5 == Then(Then(Then(Then(Then(s4,
                  stepEnsureOnIssueBranch), stepSetBranchConfigIssue),
                  stepSetBranchConfigExtraIssues), stepSetBranchConfigTitle),
                  stepSetBranchConfigParenthetical)
    IN  Then(Then(Then(Then(s5,
            stepGetGitCommits), stepGetCurrentCr), stepGetCommitMessage),
            getCommitsToPush)

\* The steps of grrUpdateOrCreate after stepParseExtraIssues.
afterParseExtraIssues(s3) ==
    Then(beforeCreateUpdateCr(s3), stepCreateUpdateCr)

grrUpdateOrCreate(w, opts, faults, cfgUsername) ==
    afterParseExtraIssues(
        Then(beforeParseExtraIssues(w, opts, faults, cfgUsername),
             stepParseExtraIssues))

\* isGrrBranch with /^grr[-\/]/: the prefix alone decides.
isGrrBranchByPrefix(b) ==
    /\ Len(b) > 4
    /\ SubSeq(b, 1, 3) = "grr"
    /\ SubSeq(b, 4, 4) \in {"-", "/"}

\* /^grr[-\/]([^\/]+)$/
isGrrBranch(b) ==
    /\ Len(b) > 4
    /\ SubSeq(b, 1, 3) = "grr"
    /\ SubSeq(b, 4, 4) \in {"-", "/"}
    /\ \A i \in 5..Len(b) : SubSeq(b, i, i) # "/"

\* notOnMaster letting master through.
notOnMasterUnchecked(s) == s

notOnMaster(s) ==
    IF s.arg.gitBranch = MASTER
    THEN Error(s, "cannot grr -D on branch master") ELSE s

checkIssue(s) ==
    IF s.arg.issueId # "" /\ s.arg.branchConfigIssue # ""
          /\ s.arg.issueId # s.arg.branchConfigIssue
    THEN Error(s, "issue conflict") ELSE s

\* stepRemoveBranchConfig leaving the section where it is.
stepRemoveBranchConfigSkipped(s) == s

\* stepRemoveBranchConfig unsetting the branch's cr alone.
stepRemoveBranchConfigCrOnly(s) ==
    LET r == Ran(s, <<"git config --remove-section", s.arg.gitBranch>>)
    IN  IF Failed(s, "remove-section") THEN Error(r, "git config failed")
        ELSE [r EXCEPT !.w.branchConfig[s.arg.gitBranch].cr = ""]

\* 'fatal: No such section!' is ignored, so the step fails only on a fault.
stepRemoveBranchConfig(s) ==
    LET r == Ran(s, <<"git config --remove-section", s.arg.gitBranch>>)
    IN  IF Failed(s, "remove-section") THEN Error(r, "git config failed")
        ELSE [r EXCEPT !.w.branchConfig[s.arg.gitBranch] = EmptyConfig]

stepDeleteGitBranchIfGrr(s) ==
    IF ~isGrrBranch(s.arg.gitBranch) THEN s
    ELSE LET c1 == Ran(s, <<"git checkout", MASTER>>)
             c2 == Ran([c1 EXCEPT !.w.gitBranch = MASTER],
                       <<"git branch -D", s.arg.gitBranch>>)
         IN  IF Failed(s, "checkout-master")
             THEN Error(c1, "git checkout failed")
             ELSE IF Failed(s, "branch-D")
             THEN Error(c2, "git branch failed")
             ELSE [c2 EXCEPT !.w.gitBranches = @ \ {s.arg.gitBranch},
                             !.w.gitLog[s.arg.gitBranch] = <<>>]

NoOpts ==
    [issueArg |-> "", addExtraIssueArgs |-> <<>>,
     removeExtraIssueArgs |-> <<>>, parenthetical |-> "", update |-> FALSE]

grrDelete(w, faults, cfgUsername) ==
    LET s0 == Machine(w, NoOpts, faults, cfgUsername)
    IN  Then(Then(Then(Then(Then(Then(Then(Then(Then(
            stepGetGitRemoteUrlOrigin(s0),
            stepGetRepoName), stepValidateIssueArg), stepGetGrrConfig),
            stepGetGitBranch), notOnMaster), stepGetBranchConfigIssue),
            checkIssue), stepRemoveBranchConfig), stepDeleteGitBranchIfGrr)

-----------------------------------------------------------------------------
(* The user, the reviewers and the command line.                           *)

\* The abbreviated shas of the commits the user makes, in order.
ShaOf(n) == <<"a0c494c", "0cd9100", "f001bf2", "89bb4e2", "a127928">>[n]

NewCommit(n) ==
    [sha |-> ShaOf(n), author |-> "Trent Mick <trentm@example.com>",
     message |-> "fix"]

\* The votes a reviewer can leave on a CR's current patch set.
Approvals ==
    {[type |-> "Code-Review", value |-> "1",
      by |-> [name |-> "A", email |-> "a@x"]]}

\* <issue>, -a/-r <issues>, -p <parenthetical> and -u of the command line.
IssueArgChoices == {"", "FOO-1", "FOO-2"}
ExtraArgChoices == {"FOO-2", "https://jira.joyent.us/browse/FOO-2"}
ParentheticalChoices == {"", "fix make check"}

SeqsUpTo(S, n) == UNION {[1..k -> S] : k \in 0..n}

OptionsUsed(opts) ==
    (IF opts.addExtraIssueArgs # <<>> THEN 1 ELSE 0)
        + (IF opts.removeExtraIssueArgs # <<>> THEN 1 ELSE 0)
        + (IF opts.parenthetical # "" THEN 1 ELSE 0)
        + (IF opts.update THEN 1 ELSE 0)

Opts ==
    {opts \in [issueArg : IssueArgChoices,
               addExtraIssueArgs : SeqsUpTo(ExtraArgChoices, MaxExtraArgs),
               removeExtraIssueArgs : SeqsUpTo(ExtraArgChoices, MaxExtraArgs),
               parenthetical : ParentheticalChoices,
               update : BOOLEAN] : OptionsUsed(opts) <= MaxOptions}

\* The external commands that can fail in an invocation.
FaultNames == {"ssh-username", "push"}
DeleteFaultNames == {"remove-section", "checkout-master"}

FaultSets(names) == {f \in SUBSET names : Cardinality(f) <= MaxFaults}

\* What an invocation leaves behind: the command, its options, the error it
\* reported, the commands it ran, its context object and the world it
\* started in.  `again` tells that it repeated the invocation before it, and
\* `prevOk` that that one had succeeded.
Report(op, s, w, again, prevOk) ==
    [op |-> op, opts |-> s.opts, err |-> s.err, errs |-> s.errs,
     crashed |-> s.crashed, operations |-> s.operations,
     pipelineErr |-> s.pipelineErr, signals |-> s.signals,
     cleanupErr |-> s.cleanupErr, log |-> s.log, arg |-> s.arg, pre |-> w,
     again |-> again, prevOk |-> prevOk]

NoRun ==
    [op |-> "none", opts |-> NoOpts, err |-> "", errs |-> <<>>,
     crashed |-> FALSE, operations |-> <<>>, pipelineErr |-> "",
     signals |-> <<>>,
     cleanupErr |-> "", log |-> <<>>, arg |-> Context(NoOpts),
     pre |-> [gitBranch |-> MASTER], again |-> FALSE, prevOk |-> FALSE]

Idle == lastRun.op = "none"

\* The caps on what the repository and Gerrit hold: Gerrit has room for the
\* CR of every issue branch that has none yet.
WithinCaps(w) ==
    /\ Cardinality(w.gitBranches \ {MASTER}) <= MaxIssueBranches
    /\ Len(w.gerrit)
         + Cardinality({b \in w.gitBranches \ {MASTER} :
                           w.branchConfig[b].cr = ""}) <= MaxCRs
    /\ \A i \in 1..Len(w.gerrit) :
           w.gerrit[i].currentPatchSet.number <= MaxPatchSet

Becomes(w) ==
    /\ gitBranch' = w.gitBranch
    /\ gitBranches' = w.gitBranches
    /\ branchConfig' = w.branchConfig
    /\ gitLog' = w.gitLog
    /\ gerrit' = w.gerrit
    /\ grrCacheUsername' = w.grrCacheUsername
    /\ gitRemoteUrlCr' = w.gitRemoteUrlCr

Init ==
    /\ gitBranch = MASTER
    /\ gitBranches = {MASTER}
    /\ branchConfig = [b \in BranchNames |-> EmptyConfig]
    /\ gitLog = [b \in BranchNames |-> <<>>]
    /\ nextSha = 0
    /\ gerrit = <<>>
    /\ grrConfigUsername = ""
    /\ grrCacheUsername = ""
    /\ gitRemoteUrlCr = NoRemote
    /\ lastRun = NoRun

\* `grr [-u] [-p <parenthetical>] [-a ...] [-r ...] [<issue>]`
UpdateOrCreate ==
    /\ Idle
    /\ \E opts \in Opts, faults \in FaultSets(FaultNames) :
           LET s == grrUpdateOrCreate(World, opts, faults, grrConfigUsername)
           IN  /\ WithinCaps(s.w)
               /\ Becomes(s.w)
               /\ lastRun' = Report("update", s, World, FALSE, FALSE)
    /\ UNCHANGED <<nextSha, grrConfigUsername>>

\* The same command line once more, right after an invocation.
UpdateOrCreateAgain ==
    /\ lastRun.op = "update" /\ ~lastRun.again
    /\ LET s == grrUpdateOrCreate(World, lastRun.opts, {}, grrConfigUsername)
       IN  /\ WithinCaps(s.w)
           /\ Becomes(s.w)
           /\ lastRun' = Report("update", s, World, TRUE,
                                lastRun.err = "" /\ ~lastRun.crashed)
    /\ UNCHANGED <<nextSha, grrConfigUsername>>

\* `grr -D`
Delete ==
    /\ Idle
    /\ \E faults \in FaultSets(DeleteFaultNames) :
           LET s == grrDelete(World, faults, grrConfigUsername)
           IN  /\ Becomes(s.w)
               /\ lastRun' = Report("delete", s, World, FALSE, FALSE)
    /\ UNCHANGED <<nextSha, grrConfigUsername>>

\* The command has returned and its output has scrolled away.
Return ==
    /\ lastRun.op \in {"update", "delete"}
    /\ lastRun' = NoRun
    /\ UNCHANGED <<gitBranch, gitBranches, branchConfig, gitLog, nextSha,
                   gerrit, grrConfigUsername, grrCacheUsername,
                   gitRemoteUrlCr>>

\* `git commit` on the current branch.
GitCommit ==
    /\ Idle /\ gitBranch # MASTER /\ nextSha < MaxCommits
    /\ nextSha' = nextSha + 1
    /\ gitLog' = [gitLog EXCEPT ![gitBranch] = <<NewCommit(nextSha + 1)>> \o @]
    /\ UNCHANGED <<gitBranch, gitBranches, branchConfig, gerrit,
                   grrConfigUsername, grrCacheUsername, gitRemoteUrlCr,
                   lastRun>>

\* `git reset --hard master`, or master caught up with the branch.
GitReset ==
    /\ Idle /\ gitBranch # MASTER /\ gitLog[gitBranch] # <<>>
    /\ gitLog' = [gitLog EXCEPT ![gitBranch] = <<>>]
    /\ UNCHANGED <<gitBranch, gitBranches, branchConfig, nextSha, gerrit,
                   grrConfigUsername, grrCacheUsername, gitRemoteUrlCr,
                   lastRun>>

\* `git checkout <branch>`
GitCheckout ==
    /\ Idle
    /\ \E b \in gitBranches \ {gitBranch} : gitBranch' = b
    /\ UNCHANGED <<gitBranches, branchConfig, gitLog, nextSha, gerrit,
                   grrConfigUsername, grrCacheUsername, gitRemoteUrlCr,
                   lastRun>>

\* A reviewer votes on the current patch set of a CR.
GerritVote ==
    /\ Idle
    /\ \E i \in 1..Len(gerrit), a \in Approvals :
           /\ Len(gerrit[i].currentPatchSet.approvals) < MaxApprovals
           /\ gerrit' = [gerrit EXCEPT
                             ![i].currentPatchSet.approvals = Append(@, a)]
    /\ UNCHANGED <<gitBranch, gitBranches, branchConfig, gitLog, nextSha,
                   grrConfigUsername, grrCacheUsername, gitRemoteUrlCr,
                   lastRun>>

\* The user removes the grr cache file, or works from another account.
CacheLost ==
    /\ Idle /\ grrCacheUsername # ""
    /\ grrCacheUsername' = ""
    /\ UNCHANGED <<gitBranch, gitBranches, branchConfig, gitLog, nextSha,
                   gerrit, grrConfigUsername, gitRemoteUrlCr, lastRun>>

Next ==
    \/ UpdateOrCreate
    \/ UpdateOrCreateAgain
    \/ Delete
    \/ Return
    \/ GitCommit
    \/ GitReset
    \/ GitCheckout
    \/ GerritVote
    \/ CacheLost

Spec == Init /\ [][Next]_vars

-----------------------------------------------------------------------------
(* Extra issues on their own: command lines that add and remove several.   *)

MaxExtrasPerOption == 2   \* issues given to -a in one command line

ExtrasArgChoices == {"FOO-2", "FOO-3", "https://jira.joyent.us/browse/FOO-2"}

ExtrasOpts ==
    [issueArg : IssueArgChoices,
     addExtraIssueArgs : SeqsUpTo(ExtrasArgChoices, MaxExtrasPerOption),
     removeExtraIssueArgs : SeqsUpTo(ExtrasArgChoices, MaxExtraArgs),
     parenthetical : {""}, update : {FALSE}]

\* `grr [-a <issue>]... [-r <issue>]... [<issue>]`
UpdateExtras ==
    /\ Idle
    /\ \E opts \in ExtrasOpts :
           LET s == grrUpdateOrCreate(World, opts, {}, grrConfigUsername)
           IN  /\ WithinCaps(s.w)
               /\ Becomes(s.w)
               /\ lastRun' = Report("update", s, World, FALSE, FALSE)
    /\ UNCHANGED <<nextSha, grrConfigUsername>>

NextExtras ==
    \/ UpdateExtras
    \/ UpdateOrCreateAgain
    \/ Delete
    \/ Return
    \/ GitCheckout

SpecExtras == Init /\ [][NextExtras]_vars

-----------------------------------------------------------------------------
(* An issue branch in any of the states its commits, its stored             *)
(* lastPushedSha and the votes on its CR can be in, and plain `grr` there. *)

MaxLocalCommits == 3   \* commits of the branch over master
MaxVotes == 2          \* votes on the CR's current patch set

IssueBranch == "grr-FOO-1"

VoteTypes == {"Code-Review", "Integration-Approval", "Verified"}
VoteValues == {"-1", "0", "1", "2"}

\* The i-th vote is the i-th reviewer's.
Reviewer(i) ==
    [name |-> <<"A", "B", "C">>[i], email |-> <<"a@x", "b@x", "c@x">>[i]]

VoteSeqs ==
    UNION {{[i \in 1..k |-> [type |-> f[i][1], value |-> f[i][2],
                             by |-> Reviewer(i)]] :
               f \in [1..k -> VoteTypes \X VoteValues]} : k \in 0..MaxVotes}

\* n commits, newest first.
LogOf(n) == [i \in 1..n |-> NewCommit(n - i + 1)]

\* Nothing stored, or a sha of the branch, or that of a commit since
\* rebased away.
LastPushedShaChoices == {""} \cup {ShaOf(i) : i \in 1..(MaxLocalCommits + 1)}

InitInputs ==
    /\ gitBranch = IssueBranch
    /\ gitBranches = {MASTER, IssueBranch}
    /\ \E n \in 0..MaxLocalCommits, hasCr \in BOOLEAN,
          lps \in LastPushedShaChoices, votes \in VoteSeqs :
           /\ ~hasCr => (lps = "" /\ votes = <<>>)
           /\ gitLog = [b \in BranchNames |->
                           IF b = IssueBranch THEN LogOf(n) ELSE <<>>]
           /\ nextSha = n
           /\ branchConfig =
                  [b \in BranchNames |->
                      IF b = IssueBranch
                      THEN [issue |-> "FOO-1", extraIssues |-> <<>>,
                            title |-> TrackerTitle("FOO-1"),
                            parenthetical |-> "", lastPushedSha |-> lps,
                            cr |-> IF hasCr THEN CrNumber(1) ELSE ""]
                      ELSE EmptyConfig]
           /\ gerrit =
                  IF hasCr
                  THEN <<[project |-> RepoName, number |-> CrNumber(1),
                          commitMessage |->
                              <<"FOO-1 " \o TrackerTitle("FOO-1"), "">>,
                          currentPatchSet |->
                              [number |-> 1, approvals |-> votes]]>>
                  ELSE <<>>
    /\ grrConfigUsername = ""
    /\ grrCacheUsername = GerritUser
    /\ gitRemoteUrlCr = ExpectedCrRemote
    /\ lastRun = NoRun

\* `grr`, every external command succeeding.
Reconcile ==
    /\ Idle
    /\ LET s == grrUpdateOrCreate(World, NoOpts, {}, grrConfigUsername)
       IN  /\ Becomes(s.w)
           /\ lastRun' = Report("update", s, World, FALSE, FALSE)
    /\ UNCHANGED <<nextSha, grrConfigUsername>>

NextInputs ==
    \/ Reconcile
    \/ Return

SpecInputs == InitInputs /\ [][NextInputs]_vars

-----------------------------------------------------------------------------
(* The walk-through of docs/example.md: a fresh clone, `grr FOO-1`,        *)
(* commits, `grr`.                                                         *)

\* `grr FOO-1`
GrrIssue ==
    /\ Idle
    /\ LET s == grrUpdateOrCreate(World, [NoOpts EXCEPT !.issueArg = "FOO-1"],
                                  {}, grrConfigUsername)
       IN  /\ WithinCaps(s.w)
           /\ Becomes(s.w)
           /\ lastRun' = Report("update", s, World, FALSE, FALSE)
    /\ UNCHANGED <<nextSha, grrConfigUsername>>

\* `grr`
GrrPlain ==
    /\ Idle
    /\ LET s == grrUpdateOrCreate(World, NoOpts, {}, grrConfigUsername)
       IN  /\ WithinCaps(s.w)
           /\ Becomes(s.w)
           /\ lastRun' = Report("update", s, World, FALSE, FALSE)
    /\ UNCHANGED <<nextSha, grrConfigUsername>>

\* `git commit` on master: master moves, and no branch gains a commit over
\* it.
GitCommitOnMaster ==
    /\ Idle /\ gitBranch = MASTER /\ nextSha < MaxCommits
    /\ nextSha' = nextSha + 1
    /\ UNCHANGED <<gitBranch, gitBranches, branchConfig, gitLog, gerrit,
                   grrConfigUsername, grrCacheUsername, gitRemoteUrlCr,
                   lastRun>>

NextScenario ==
    \/ GrrIssue
    \/ GrrPlain
    \/ Return
    \/ GitCommit
    \/ GitCommitOnMaster
    \/ GitCheckout
    \/ GitReset
    \/ GerritVote
    \/ Delete

SpecScenario == Init /\ [][NextScenario]_vars

-----------------------------------------------------------------------------
(* An issue branch with commits to push, and `grr` there while any one of  *)
(* the commands of the squash, the push and the clean up can fail.         *)

MaxPushCommits == 2   \* commits of the branch over master
MaxPushCRs == 2       \* CRs Gerrit holds

PushFaultNames ==
    {"query", "query-other-project", "query-other-number",
     "squash-checkout", "squash-merge", "squash-commit", "push",
     "push-output", "set-cr", "set-lastPushedSha", "requery", "comment",
     "cleanup-checkout", "cleanup-delete"}

PushCaps(w) ==
    /\ Len(w.gerrit) <= MaxPushCRs
    /\ \A i \in 1..Len(w.gerrit) :
           w.gerrit[i].currentPatchSet.number <= MaxPatchSet

\* The branch has no CR yet, or one with its first commit pushed or with
\* lastPushedSha lost; a vote may have come in; a grr/auto branch may have
\* been left behind.
InitPush ==
    /\ gitBranch = IssueBranch
    /\ \E n \in 0..MaxPushCommits, hasCr \in BOOLEAN,
          lps \in {"", ShaOf(1)}, votes \in SeqsUpTo(Approvals, 1),
          stale \in BOOLEAN :
           /\ ~hasCr => (lps = "" /\ votes = <<>>)
           /\ gitBranches = {MASTER, IssueBranch}
                  \cup (IF stale THEN {"grr/auto/FOO-1"} ELSE {})
           /\ gitLog = [b \in BranchNames |->
                           IF b = IssueBranch THEN LogOf(n) ELSE <<>>]
           /\ nextSha = n
           /\ branchConfig =
                  [b \in BranchNames |->
                      IF b = IssueBranch
                      THEN [issue |-> "FOO-1", extraIssues |-> <<>>,
                            title |-> TrackerTitle("FOO-1"),
                            parenthetical |-> "", lastPushedSha |-> lps,
                            cr |-> IF hasCr THEN CrNumber(1) ELSE ""]
                      ELSE EmptyConfig]
           /\ gerrit =
                  IF hasCr
                  THEN <<[project |-> RepoName, number |-> CrNumber(1),
                          commitMessage |->
                              <<"FOO-1 " \o TrackerTitle("FOO-1"), "">>,
                          currentPatchSet |->
                              [number |-> 1, approvals |-> votes]]>>
                  ELSE <<>>
    /\ grrConfigUsername = ""
    /\ grrCacheUsername = GerritUser
    /\ gitRemoteUrlCr = ExpectedCrRemote
    /\ lastRun = NoRun

\* `grr [FOO-1]`, at most MaxFaults of its commands failing.
PushReconcile ==
    /\ Idle
    /\ \E issueArg \in {"", "FOO-1"}, faults \in FaultSets(PushFaultNames) :
           LET s == grrUpdateOrCreate(World,
                                      [NoOpts EXCEPT !.issueArg = issueArg],
                                      faults, grrConfigUsername)
           IN  /\ PushCaps(s.w)
               /\ Becomes(s.w)
               /\ lastRun' = Report("update", s, World, FALSE, FALSE)
    /\ UNCHANGED <<nextSha, grrConfigUsername>>

NextPush ==
    \/ PushReconcile
    \/ Return
    \/ GitCheckout

SpecPush == InitPush /\ [][NextPush]_vars

-----------------------------------------------------------------------------
(* A clone with one more branch than master, of the user's naming or of    *)
(* grr's, with or without an issue stored for it and a commit on it;       *)
(* `grr [<issue>]` and `grr -D` on either branch.                          *)

MaxBranches == 2   \* branches of the clone besides master

\* A branch of the user's, an issue branch of the current and of the old
\* form, and a grr/auto branch an earlier failure left behind.
StartBranches == {"feature", "grr-FOO-1", "grr/FOO-1", "grr/auto/FOO-1"}

InitBranches ==
    /\ \E b \in StartBranches, onMaster \in BOOLEAN,
          stored \in {"", "FOO-1"}, cached \in BOOLEAN, n \in 0..1 :
           /\ gitLog = [c \in BranchNames |->
                           IF c = b THEN LogOf(n) ELSE <<>>]
           /\ nextSha = n
           /\ gitBranches = {MASTER, b}
           /\ gitBranch = IF onMaster THEN MASTER ELSE b
           /\ branchConfig =
                  [c \in BranchNames |->
                      IF c = b /\ stored # ""
                      THEN [EmptyConfig EXCEPT
                                !.issue = stored,
                                !.title = TrackerTitle(stored)]
                      ELSE EmptyConfig]
           /\ grrCacheUsername = IF cached THEN GerritUser ELSE ""
    /\ gerrit = <<>>
    /\ grrConfigUsername = ""
    /\ gitRemoteUrlCr = ExpectedCrRemote
    /\ lastRun = NoRun

\* `grr [<issue>]`; the username probe and the creation of the branch can
\* fail.
GrrOnBranch ==
    /\ Idle
    /\ \E issueArg \in IssueArgChoices,
          faults \in FaultSets({"ssh-username", "checkout-b"}) :
           LET s == grrUpdateOrCreate(World,
                                      [NoOpts EXCEPT !.issueArg = issueArg],
                                      faults, grrConfigUsername)
           IN  /\ PushCaps(s.w)
               /\ Cardinality(s.w.gitBranches \ {MASTER}) <= MaxBranches
               /\ Becomes(s.w)
               /\ lastRun' = Report("update", s, World, FALSE, FALSE)
    /\ UNCHANGED <<nextSha, grrConfigUsername>>

NextBranches ==
    \/ GrrOnBranch
    \/ Delete
    \/ Return
    \/ GitCheckout

SpecBranches == InitBranches /\ [][NextBranches]_vars

-----------------------------------------------------------------------------
(* A clone on master or on a branch, with or without the cr remote, and    *)
(* `grr` there while any one of the commands of the steps up to the        *)
(* creation of the issue branch can fail.                                  *)

EarlyFaultNames ==
    {"origin", "symbolic-ref", "get-issue", "get-extraIssues",
     "ssh-username", "git-remote", "get-title", "get-cr", "remote-add",
     "fetch-FOO-1", "fetch-FOO-2", "checkout-b"}

InitEarly ==
    /\ \E b \in {"feature", "grr-FOO-1"}, onMaster \in BOOLEAN,
          stored \in {"", "FOO-1"}, cached \in BOOLEAN :
           /\ gitBranches = {MASTER, b}
           /\ gitBranch = IF onMaster THEN MASTER ELSE b
           /\ branchConfig =
                  [c \in BranchNames |->
                      IF c = b /\ stored # ""
                      THEN [EmptyConfig EXCEPT
                                !.issue = stored,
                                !.title = TrackerTitle(stored)]
                      ELSE EmptyConfig]
           /\ grrCacheUsername = IF cached THEN GerritUser ELSE ""
    /\ gitLog = [c \in BranchNames |-> <<>>]
    /\ nextSha = 0
    /\ gerrit = <<>>
    /\ grrConfigUsername = ""
    /\ gitRemoteUrlCr \in {NoRemote, ExpectedCrRemote}
    /\ lastRun = NoRun

\* `grr [-a FOO-1] [<issue>]`
GrrEarly ==
    /\ Idle
    /\ \E issueArg \in IssueArgChoices, add \in {<<>>, <<"FOO-1">>},
          faults \in FaultSets(EarlyFaultNames) :
           LET s == grrUpdateOrCreate(World,
                                      [NoOpts EXCEPT
                                           !.issueArg = issueArg,
                                           !.addExtraIssueArgs = add],
                                      faults, grrConfigUsername)
           IN  /\ Cardinality(s.w.gitBranches \ {MASTER}) <= MaxBranches
               /\ Becomes(s.w)
               /\ lastRun' = Report("update", s, World, FALSE, FALSE)
    /\ UNCHANGED <<nextSha, grrConfigUsername>>

NextEarly ==
    \/ GrrEarly
    \/ Return
    \/ GitCheckout

SpecEarly == InitEarly /\ [][NextEarly]_vars

-----------------------------------------------------------------------------
(* An issue branch with a parenthetical and extra issues stored or not,    *)
(* and votes on its CR: the inputs of the commit message.                  *)

MaxStoredExtras == 2   \* extra issues stored for the branch

\* An extra issue as an earlier `grr -a <id>` stored it.
StoredExtra(id) ==
    LET p == parseIssueArg(RepoName, id)
    IN  [issueId |-> p.issueId, issueType |-> p.issueType,
         issueName |-> p.issueName, issueTitle |-> TrackerTitle(p.issueId)]

\* Lists of distinct extra issues, in either order.
StoredExtrasChoices ==
    {e \in SeqsUpTo({StoredExtra("FOO-2"), StoredExtra("FOO-3")},
                    MaxStoredExtras) :
        \A i, j \in 1..Len(e) : i # j => e[i] # e[j]}

InitMessage ==
    /\ gitBranch = IssueBranch
    /\ gitBranches = {MASTER, IssueBranch}
    /\ gitLog = [b \in BranchNames |->
                    IF b = IssueBranch THEN LogOf(1) ELSE <<>>]
    /\ nextSha = 1
    /\ \E hasCr \in BOOLEAN, parenthetical \in ParentheticalChoices,
          extras \in StoredExtrasChoices, votes \in VoteSeqs :
           /\ ~hasCr => votes = <<>>
           /\ branchConfig =
                  [b \in BranchNames |->
                      IF b = IssueBranch
                      THEN [issue |-> "FOO-1", extraIssues |-> extras,
                            title |-> TrackerTitle("FOO-1"),
                            parenthetical |-> parenthetical,
                            lastPushedSha |-> IF hasCr THEN ShaOf(1) ELSE "",
                            cr |-> IF hasCr THEN CrNumber(1) ELSE ""]
                      ELSE EmptyConfig]
           /\ gerrit =
                  IF hasCr
                  THEN <<[project |-> RepoName, number |-> CrNumber(1),
                          commitMessage |->
                              <<"FOO-1 " \o TrackerTitle("FOO-1"), "">>,
                          currentPatchSet |->
                              [number |-> 1, approvals |-> votes]]>>
                  ELSE <<>>
    /\ grrConfigUsername = ""
    /\ grrCacheUsername = GerritUser
    /\ gitRemoteUrlCr = ExpectedCrRemote
    /\ lastRun = NoRun

SpecMessage == InitMessage /\ [][NextInputs]_vars

\* `grr [-p <parenthetical>]` on that branch.
ParentheticalArgs == {"", "fix make check", "take two"}

GrrParenthetical ==
    /\ Idle
    /\ \E p \in ParentheticalArgs :
           LET s == grrUpdateOrCreate(World,
                                      [NoOpts EXCEPT !.parenthetical = p],
                                      {}, grrConfigUsername)
           IN  /\ PushCaps(s.w)
               /\ Becomes(s.w)
               /\ lastRun' = Report("update", s, World, FALSE, FALSE)
    /\ UNCHANGED <<nextSha, grrConfigUsername>>

NextParenthetical ==
    \/ GrrParenthetical
    \/ Return

SpecParenthetical == InitMessage /\ [][NextParenthetical]_vars

-----------------------------------------------------------------------------
(* The title fetches of the extra issues, one by one.                      *)

\* `grr [-a <issue>]... [-r <issue>]... [<issue>]` up to the point where
\* stepParseExtraIssues has started its fetches and the process waits for
\* them; an invocation that fails before that step is over.
UpdateOrCreateStarts ==
    /\ Idle
    /\ \E opts \in ExtrasOpts :
           LET s == beforeParseExtraIssues(World, opts, {}, grrConfigUsername)
               whole == grrUpdateOrCreate(World, opts, {}, grrConfigUsername)
           IN  /\ WithinCaps(whole.w)
               /\ Becomes(s.w)
               /\ lastRun' =
                      IF s.err # ""
                      THEN Report("update", s, World, FALSE, FALSE)
                      ELSE Report("fetching", stepParseExtraIssuesStart(s),
                                  World, FALSE, FALSE)
    /\ UNCHANGED <<nextSha, grrConfigUsername>>

\* getIssueTitle calls back for one of the extra issues being fetched, with
\* the title or with an error.
getIssueTitleReturns ==
    /\ lastRun.op = "fetching"
    /\ \E i \in 1..Len(lastRun.operations), ok \in BOOLEAN :
           /\ lastRun.operations[i].status = "pending"
           /\ lastRun' =
                  IF ok
                  THEN [lastRun EXCEPT
                           !.arg.extraIssues[i].issueTitle =
                               TrackerTitle(lastRun.arg.extraIssues[i].issueId),
                           !.operations[i].status = "ok"]
                  ELSE [lastRun EXCEPT
                           !.operations[i] =
                               [status |-> "fail",
                                err |-> "could not retrieve issue info"]]
    /\ UNCHANGED <<gitBranch, gitBranches, branchConfig, gitLog, nextSha,
                   gerrit, grrConfigUsername, grrCacheUsername,
                   gitRemoteUrlCr>>

\* Every function has called back: forEachParallel calls back, and the
\* pipeline goes on with its next step or ends with the error.
ParseExtraIssuesReturns ==
    /\ lastRun.op = "fetching"
    /\ \A i \in 1..Len(lastRun.operations) :
           lastRun.operations[i].status # "pending"
    /\ LET s == [w |-> World, arg |-> lastRun.arg, opts |-> lastRun.opts,
                 faults |-> {}, cfgUsername |-> grrConfigUsername,
                 err |-> "", errs |-> <<>>, log |-> lastRun.log,
                 cleanupErr |-> "", crashed |-> FALSE,
                 operations |-> lastRun.operations, pipelineErr |-> "",
                 signals |-> <<>>]
           t == afterParseExtraIssues(stepParseExtraIssuesDone(s))
       IN  /\ Becomes(t.w)
           /\ lastRun' = Report("update", t, lastRun.pre, FALSE, FALSE)
    /\ UNCHANGED <<nextSha, grrConfigUsername>>

NextFetch ==
    \/ UpdateOrCreateStarts
    \/ getIssueTitleReturns
    \/ ParseExtraIssuesReturns
    \/ Return
    \/ GitCheckout

SpecFetch == Init /\ [][NextFetch]_vars

-----------------------------------------------------------------------------
(* The same issue branch as for the push, with the invocation followed     *)
(* through the return of `git branch --list`, the first command of         *)
(* stepCreateUpdateCr's pipeline.                                          *)

\* `grr` runs up to stepCreateUpdateCr, which, with something to push,
\* starts `git branch --list`.
CreateUpdateCrStarts ==
    /\ Idle
    /\ LET s == beforeCreateUpdateCr(
                    Then(beforeParseExtraIssues(World, NoOpts, {},
                                                grrConfigUsername),
                         stepParseExtraIssues))
           t == [s EXCEPT !.arg.crAction =
                     CrAction(s.arg.commitsToPush, s.arg.currentCr,
                              s.arg.commitMessage)]
       IN  /\ Becomes(s.w)
           /\ lastRun' =
                  IF s.err # "" THEN Report("update", s, World, FALSE, FALSE)
                  ELSE IF t.arg.crAction = "none"
                  THEN Report("update", t, World, FALSE, FALSE)
                  ELSE IF Len(s.arg.gitCommits) = 0
                  THEN Report("update",
                              [t EXCEPT !.err = "TypeError", !.crashed = TRUE],
                              World, FALSE, FALSE)
                  ELSE Report("listing", getBranches(t), World, FALSE, FALSE)
    /\ UNCHANGED <<nextSha, grrConfigUsername>>

\* forkExecWait calls getBranches's callback.  Without an error the step
\* calls next() and the pipeline goes on.  With an error it calls next(err),
\* on which the pipeline ends and its callback starts the clean up, and
\* then, falling through, next() once more.  What becomes of that second
\* call is up to the vasync in node_modules: it throws; or it is ignored;
\* or the pipeline takes it for the completion of its next function,
\* printOpener, and calls squashEm, which throws a TypeError on
\* gitBranches.indexOf, gitBranches being undefined.  An exception ends the
\* process, the clean up's `git checkout` started or not.
getBranchesReturns ==
    /\ lastRun.op = "listing"
    /\ \E failed \in BOOLEAN, reaction \in {"throws", "ignores", "advances"},
          cleaning \in BOOLEAN :
           LET s == [w |-> World, arg |-> lastRun.arg, opts |-> lastRun.opts,
                     faults |-> {}, cfgUsername |-> grrConfigUsername,
                     err |-> "", errs |-> <<>>, log |-> lastRun.log,
                     cleanupErr |-> "", crashed |-> FALSE,
                     operations |-> <<>>, pipelineErr |-> "",
                     signals |-> <<>>]
               first == Signalled(Error(s, "git branch --list failed"),
                                  "getBranches")
               again == [Signalled([first EXCEPT !.err = ""], "getBranches")
                            EXCEPT !.err = first.err]
               thrown(e) ==
                   [(IF cleaning
                     THEN Ran(again, <<"git checkout", s.arg.issueBranch>>)
                     ELSE again)
                       EXCEPT !.crashed = TRUE, !.err = e,
                              !.pipelineErr = first.err]
               u == IF ~failed
                    THEN cleanUp(Then(Signalled(s, "getBranches"),
                                      afterGetBranches))
                    ELSE IF reaction = "throws"
                    THEN thrown("callback invoked twice")
                    ELSE IF reaction = "advances"
                    THEN thrown("TypeError")
                    ELSE cleanUp(again)
           IN  /\ PushCaps(u.w)
               /\ Becomes(u.w)
               /\ lastRun' = Report("update", u, lastRun.pre, FALSE, FALSE)
    /\ UNCHANGED <<nextSha, grrConfigUsername>>

NextCallbacks ==
    \/ CreateUpdateCrStarts
    \/ getBranchesReturns
    \/ Return

SpecCallbacks == InitPush /\ [][NextCallbacks]_vars

-----------------------------------------------------------------------------
(* What an invocation did, read off its report.                            *)

RanCommand(run, name) == \E i \in 1..Len(run.log) : run.log[i][1] = name

Squashed(run) ==
    RanCommand(run, "git checkout -t -b") \/ RanCommand(run, "git merge --squash")
        \/ RanCommand(run, "git commit --author")

Pushed(run) == RanCommand(run, "git push")

\* The issue stored for the branch the invocation started on.
StoredIssue(run) == run.pre.branchConfig[run.pre.gitBranch].issue

\* The invocation was given an <issue> other than the one stored.
ConflictingIssueArg(run) ==
    /\ run.op = "update"
    /\ StoredIssue(run) # ""
    /\ parseIssueArg(RepoName, run.opts.issueArg).issueId
           \notin {"", StoredIssue(run)}

SameLastPushedShaAndCr(run) ==
    \A b \in BranchNames :
        /\ branchConfig[b].lastPushedSha = run.pre.branchConfig[b].lastPushedSha
        /\ branchConfig[b].cr = run.pre.branchConfig[b].cr

RepeatDidNothing(run) ==
    /\ run.err = ""
    /\ run.arg.crAction = "none"
    /\ ~Squashed(run)
    /\ ~Pushed(run)
    /\ SameLastPushedShaAndCr(run)

-----------------------------------------------------------------------------
(* Idempotence.                                                            *)

\* C1, as the claim states it: after a successful grrUpdateOrCreate, a second
\* one with the same arguments, no new commits and no remote change yields
\* action 'none', squashes and pushes nothing and leaves lastPushedSha and
\* cr as they were.
RepeatIsNoOp ==
    (lastRun.again /\ lastRun.prevOk) => RepeatDidNothing(lastRun)

\* C1, amended: the same, for arguments that add no extra issue (the second
\* `-a <issue>` is refused as a duplicate of what the first one stored).
RepeatWithoutAddIsNoOp ==
    (lastRun.again /\ lastRun.prevOk /\ lastRun.opts.addExtraIssueArgs = <<>>)
        => RepeatDidNothing(lastRun)

\* A CR was pushed, and the same command line then ran once more.
RepeatedAfterPush ==
    /\ lastRun.again /\ lastRun.prevOk
    /\ lastRun.opts.addExtraIssueArgs = <<>>
    /\ lastRun.arg.branchConfigLastPushedSha # ""
    /\ lastRun.arg.branchConfigCr # ""
    /\ Len(lastRun.arg.gitCommits) > 0

-----------------------------------------------------------------------------
(* The primary issue.                                                      *)

\* C2: an invocation given an <issue> that conflicts with the stored issue
\* fails with the issue-conflict error and changes nothing: no branch
\* metadata, no branch, no push, no remote, no cached gerrit username.
ConflictFailsAndChangesNothing ==
    ConflictingIssueArg(lastRun) =>
        /\ lastRun.err = "issue conflict"
        /\ World = lastRun.pre

\* C3: across grrUpdateOrCreate invocations the stored `issue` of a branch,
\* once non-empty, keeps its value.
StoredIssueNeverChanges ==
    [][lastRun'.op = "update" =>
          \A b \in BranchNames :
              branchConfig[b].issue # ""
                  => branchConfig'[b].issue = branchConfig[b].issue]_vars

\* An invocation on a branch with a stored issue pushed a patch set.
PushedWithStoredIssue ==
    /\ lastRun.op = "update" /\ lastRun.err = ""
    /\ StoredIssue(lastRun) # ""
    /\ Pushed(lastRun)

-----------------------------------------------------------------------------
(* The main line.                                                          *)

ConfigCommands ==
    {"git config --get", "git config --set", "git config --remove-section"}

\* C5: nothing is stored under branch.master: no invocation reads, writes
\* or removes a key of master's section, on whatever branch it runs.
NothingStoredUnderMaster ==
    /\ branchConfig[MASTER] = EmptyConfig
    /\ \A i \in 1..Len(lastRun.log) :
           lastRun.log[i][1] \in ConfigCommands => lastRun.log[i][2] # MASTER

\* An invocation that started on master stored the issue of its new branch.
StoredFromMaster ==
    /\ lastRun.op = "update" /\ lastRun.err = ""
    /\ lastRun.pre.gitBranch = MASTER
    /\ RanCommand(lastRun, "git config --set")
    /\ branchConfig[gitBranch].issue = lastRun.arg.issueId

-----------------------------------------------------------------------------
(* Extra issues.                                                           *)

\* C4: the extraIssues stored for a branch never holds the branch's primary
\* issue, nor one issue id twice.
StoredExtraIssuesAreASet ==
    \A b \in BranchNames :
        LET extra == branchConfig[b].extraIssues
        IN  /\ \A i \in 1..Len(extra) :
                   extra[i].issueId # branchConfig[b].issue
            /\ \A i, j \in 1..Len(extra) :
                   extra[i].issueId = extra[j].issueId => i = j

\* Two extra issues are stored, and an invocation adding one of them again
\* was refused.
RefusedDuplicateOfStored ==
    /\ lastRun.op = "update"
    /\ lastRun.err = "duplicate extra issue"
    /\ Len(branchConfig[gitBranch].extraIssues) = 2

-----------------------------------------------------------------------------
(* The commit message.                                                     *)

\* The votes on the CR of the branch, as the invocation found them.
VotesBefore(run) ==
    GerritQuery(run.pre.gerrit,
                run.pre.branchConfig[run.pre.gitBranch].cr)
        .currentPatchSet.approvals

PositiveValue(value) == value \in {"1", "2"}

IsTrailerLine(line) ==
    /\ Len(line) >= 13
    /\ SubSeq(line, 1, 13) \in {"Reviewed by: ", "Approved by: "}

IsTrailerOf(line, vote) ==
    \/ /\ vote.type = "Code-Review"
       /\ line = "Reviewed by: " \o vote.by.name \o " <" \o vote.by.email
                     \o ">"
    \/ /\ vote.type = "Integration-Approval"
       /\ line = "Approved by: " \o vote.by.name \o " <" \o vote.by.email
                     \o ">"

ComputedMessage(run) == run.op = "update" /\ run.arg.commitMessage # <<>>

\* C6: every trailer line of the computed commit message comes from a vote
\* of positive value, and there are no more trailer lines than positive
\* Code-Review and Integration-Approval votes on the current patch set.
TrailersOnlyFromPositiveVotes ==
    ComputedMessage(lastRun) =>
        LET msg == lastRun.arg.commitMessage
            votes == VotesBefore(lastRun)
            trailers == SelectSeq(msg, IsTrailerLine)
        IN  /\ \A i \in 1..Len(trailers) :
                   \E j \in 1..Len(votes) :
                       /\ PositiveValue(votes[j].value)
                       /\ IsTrailerOf(trailers[i], votes[j])
            /\ Len(trailers) <=
                   Cardinality({j \in 1..Len(votes) :
                       /\ PositiveValue(votes[j].value)
                       /\ votes[j].type
                              \in {"Code-Review", "Integration-Approval"}})

\* A -1 and a +1 Code-Review vote gave one trailer line.
OneTrailerForPlusAndMinusOne ==
    /\ ComputedMessage(lastRun)
    /\ Len(VotesBefore(lastRun)) = 2
    /\ VotesBefore(lastRun)[1].type = "Code-Review"
    /\ VotesBefore(lastRun)[1].value = "-1"
    /\ VotesBefore(lastRun)[2].type = "Code-Review"
    /\ VotesBefore(lastRun)[2].value = "1"
    /\ SelectSeq(lastRun.arg.commitMessage, IsTrailerLine)
           = <<"Reviewed by: B <b@x>">>

\* C7: every Code-Review vote of positive value, +1 or +2, has its
\* 'Reviewed by:' line in the computed commit message, and every
\* Integration-Approval vote of positive value its 'Approved by:' line.
EveryPositiveVoteHasItsTrailer ==
    ComputedMessage(lastRun) =>
        LET msg == lastRun.arg.commitMessage
            votes == VotesBefore(lastRun)
        IN  \A j \in 1..Len(votes) :
                (/\ PositiveValue(votes[j].value)
                 /\ votes[j].type \in {"Code-Review", "Integration-Approval"})
                    => \E i \in 1..Len(msg) : IsTrailerOf(msg[i], votes[j])

-----------------------------------------------------------------------------
(* Commits to push and the action.                                         *)

LogBefore(run) == run.pre.gitLog[run.pre.gitBranch]
LastPushedShaBefore(run) ==
    run.pre.branchConfig[run.pre.gitBranch].lastPushedSha
CrBefore(run) == run.pre.branchConfig[run.pre.gitBranch].cr

\* The commits of `log` (newest first) before the first one of sha `sha`;
\* all of them when none has that sha.
NewerThan(log, sha) ==
    IF \E i \in 1..Len(log) : log[i].sha = sha
    THEN LET first == CHOOSE i \in 1..Len(log) :
                          /\ log[i].sha = sha
                          /\ \A j \in 1..(i - 1) : log[j].sha # sha
         IN  SubSeq(log, 1, first - 1)
    ELSE log

Decided(run) == run.op = "update" /\ run.arg.crAction # ""

\* C8: commits-to-push is none when the branch has no commit over master or
\* its newest commit is the one lastPushedSha names; otherwise it is the
\* commits newer than the one lastPushedSha names, newest first, and all
\* of them when lastPushedSha is unset or names none of them.
CommitsToPushAreTheNewerOnes ==
    Decided(lastRun) =>
        LET log == LogBefore(lastRun)
            sha == LastPushedShaBefore(lastRun)
            got == lastRun.arg.commitsToPush
        IN  /\ got.isNull <=> (log = <<>> \/ log[1].sha = sha)
            /\ got.commits = NewerThan(log, sha)
            /\ (sha = "" \/ \A i \in 1..Len(log) : log[i].sha # sha)
                   => got.commits = log

\* [c1, c2, c3] with lastPushedSha = c1 gave [c3, c2].
PushedTwoOfThree ==
    /\ Decided(lastRun)
    /\ Shas(LogBefore(lastRun)) = <<ShaOf(3), ShaOf(2), ShaOf(1)>>
    /\ LastPushedShaBefore(lastRun) = ShaOf(1)
    /\ Shas(lastRun.arg.commitsToPush.commits) = <<ShaOf(3), ShaOf(2)>>

\* C9: the action is 'create' iff there are commits to push and no CR is
\* stored, 'update' iff there are commits to push and a CR is stored,
\* 'updateCommitMessage' iff there are none, a CR is stored and the computed
\* message differs, trimmed, from the CR's, and 'none' otherwise.
ActionIsDecidedByCommitsAndCr ==
    Decided(lastRun) =>
        LET toPush == NewerThan(LogBefore(lastRun),
                                LastPushedShaBefore(lastRun)) # <<>>
            stored == CrBefore(lastRun) # ""
            differs == Trim(GerritQuery(lastRun.pre.gerrit,
                                        CrBefore(lastRun)).commitMessage)
                           # Trim(lastRun.arg.commitMessage)
            action == lastRun.arg.crAction
        IN  /\ action = "create" <=> (toPush /\ ~stored)
            /\ action = "update" <=> (toPush /\ stored)
            /\ action = "updateCommitMessage"
                   <=> (~toPush /\ stored /\ differs)
            /\ action = "none" <=> (~toPush /\ (stored => ~differs))
            /\ action \in {"create", "update", "updateCommitMessage", "none"}

\* A new vote alone made the invocation push the commit message again.
VoteAloneChangedTheMessage ==
    /\ Decided(lastRun)
    /\ lastRun.err = ""
    /\ lastRun.arg.crAction = "updateCommitMessage"
    /\ lastRun.arg.commitsToPush.isNull
    /\ Pushed(lastRun)

-----------------------------------------------------------------------------
(* The walk-through.                                                       *)

\* `grr FOO-1` in a clone that has master only, one commit made.
FirstRunFromMaster(run) ==
    /\ run.op = "update"
    /\ run.opts.issueArg = "FOO-1"
    /\ run.pre.gitBranch = MASTER
    /\ run.pre.gitBranches = {MASTER}
    /\ run.pre.gerrit = <<>>

\* C10, as the claim states it: on master with issue FOO-1 and one local
\* commit, the first invocation creates and checks out grr-FOO-1, takes
\* action 'create' and stores issue, lastPushedSha and cr.
FirstRunCreatesTheCr ==
    (FirstRunFromMaster(lastRun) /\ nextSha = 1) =>
        /\ gitBranch = "grr-FOO-1"
        /\ lastRun.arg.crAction = "create"
        /\ branchConfig["grr-FOO-1"].issue = "FOO-1"
        /\ branchConfig["grr-FOO-1"].lastPushedSha = ShaOf(1)
        /\ branchConfig["grr-FOO-1"].cr # ""

\* C10, amended: the first invocation creates and checks out grr-FOO-1,
\* stores issue and title and takes action 'none', the new branch having
\* no commit over master; with one commit made on the branch the next
\* invocation takes action 'create', creates the CR and stores
\* lastPushedSha and cr; an invocation after that, no commit or vote added,
\* takes action 'none'.
WalkThrough ==
    /\ FirstRunFromMaster(lastRun) =>
           /\ lastRun.err = ""
           /\ gitBranch = "grr-FOO-1"
           /\ "grr-FOO-1" \in gitBranches
           /\ lastRun.arg.crAction = "none"
           /\ branchConfig["grr-FOO-1"]
                  = [EmptyConfig EXCEPT !.issue = "FOO-1",
                                        !.title = "fix thing"]
           /\ gerrit = <<>>
    /\ (/\ lastRun.op = "update"
        /\ lastRun.pre.gitBranch = "grr-FOO-1"
        /\ StoredIssue(lastRun) = "FOO-1"
        /\ Len(LogBefore(lastRun)) = 1
        /\ CrBefore(lastRun) = "") =>
           /\ lastRun.err = ""
           /\ lastRun.arg.crAction = "create"
           /\ gitBranch = "grr-FOO-1"
           /\ branchConfig["grr-FOO-1"].issue = "FOO-1"
           /\ branchConfig["grr-FOO-1"].lastPushedSha
                  = LogBefore(lastRun)[1].sha
           /\ Len(gerrit) = Len(lastRun.pre.gerrit) + 1
           /\ branchConfig["grr-FOO-1"].cr = gerrit[Len(gerrit)].number
    /\ (/\ lastRun.op = "update"
        /\ lastRun.pre.gitBranch = "grr-FOO-1"
        /\ StoredIssue(lastRun) = "FOO-1"
        /\ CrBefore(lastRun) # ""
        /\ LogBefore(lastRun) # <<>>
        /\ LastPushedShaBefore(lastRun) = LogBefore(lastRun)[1].sha
        /\ VotesBefore(lastRun) = <<>>) =>
           /\ lastRun.err = ""
           /\ lastRun.arg.crAction = "none"
           /\ World = lastRun.pre

\* The CR of grr-FOO-1 exists and the invocation after its creation found
\* nothing to do.
NothingToDoAfterCreate ==
    /\ lastRun.op = "update"
    /\ lastRun.arg.crAction = "none"
    /\ gitBranch = "grr-FOO-1"
    /\ branchConfig["grr-FOO-1"].cr = CrNumber(1)
    /\ branchConfig["grr-FOO-1"].lastPushedSha = ShaOf(1)
    /\ gerrit[1].currentPatchSet = [number |-> 1, approvals |-> <<>>]

-----------------------------------------------------------------------------
(* The squash/push sub-pipeline and its clean up.                          *)

\* The sub-pipeline of stepCreateUpdateCr has begun: its first function has
\* listed the branches.
Began(run) == run.op = "update" /\ RanCommand(run, "git branch --list")

AutoBranchOf(run) == "grr/auto/" \o run.arg.issueId

PushSucceeded(run) == Pushed(run) /\ gerrit # run.pre.gerrit

\* The run failed in the squash, in the push, or in reading the number of
\* the CR it created.
SquashOrPushFailed(run) ==
    /\ Began(run)
    /\ \/ ~Pushed(run)
       \/ gerrit = run.pre.gerrit
       \/ run.err = "could not determine created CR num"

\* C12: an invocation changes a branch's stored lastPushedSha only if its
\* push succeeded and, when the branch had no CR, the number of the created
\* CR is stored; the new value is the sha of the newest local commit.  When
\* the squash or the push fails, or the created CR's number cannot be
\* parsed, no branch's lastPushedSha or cr changes.
LastPushedShaFollowsThePush ==
    lastRun.op = "update" =>
        \A b \in BranchNames :
            /\ branchConfig[b].lastPushedSha
                       # lastRun.pre.branchConfig[b].lastPushedSha =>
                   /\ b = lastRun.pre.gitBranch
                   /\ PushSucceeded(lastRun)
                   /\ branchConfig[b].cr # ""
                   /\ GerritQuery(gerrit, branchConfig[b].cr) # NullCr
                   /\ branchConfig[b].lastPushedSha
                          = LogBefore(lastRun)[1].sha
            /\ SquashOrPushFailed(lastRun) =>
                   /\ branchConfig[b].lastPushedSha
                          = lastRun.pre.branchConfig[b].lastPushedSha
                   /\ branchConfig[b].cr = lastRun.pre.branchConfig[b].cr

\* Two commits were pushed as a new CR whose number was stored, and
\* lastPushedSha became the sha of the newer commit.
CreatedAndStoredNewest ==
    /\ lastRun.op = "update" /\ lastRun.err = ""
    /\ CrBefore(lastRun) = "" /\ PushSucceeded(lastRun)
    /\ Len(LogBefore(lastRun)) = 2
    /\ LastPushedShaBefore(lastRun) = ""
    /\ branchConfig[IssueBranch].lastPushedSha = ShaOf(2)
    /\ branchConfig[IssueBranch].cr = CrNumber(1)

\* C13: the push goes to 'refs/for/master' when the branch has no stored CR
\* number and to 'refs/changes/<cr>' when it has one; a branch's stored cr
\* changes only in a run of the former kind, from absent to the number of
\* the CR that push created; so a stored cr always names a CR Gerrit has.
PushTargetFollowsStoredCr ==
    /\ \A b \in BranchNames :
           branchConfig[b].cr # "" =>
               GerritQuery(gerrit, branchConfig[b].cr) # NullCr
    /\ lastRun.op = "update" =>
           /\ \A i \in 1..Len(lastRun.log) :
                  lastRun.log[i][1] = "git push" =>
                      lastRun.log[i] =
                          <<"git push", "cr",
                            IF CrBefore(lastRun) = ""
                            THEN "HEAD:refs/for/master"
                            ELSE "HEAD:refs/changes/" \o CrBefore(lastRun)>>
           /\ \A b \in BranchNames :
                  branchConfig[b].cr # lastRun.pre.branchConfig[b].cr =>
                      /\ b = lastRun.pre.gitBranch
                      /\ lastRun.pre.branchConfig[b].cr = ""
                      /\ \E i \in 1..Len(lastRun.log) :
                             lastRun.log[i] =
                                 <<"git push", "cr", "HEAD:refs/for/master">>
                      /\ GerritQuery(lastRun.pre.gerrit, branchConfig[b].cr)
                             = NullCr
                      /\ GerritQuery(gerrit, branchConfig[b].cr) # NullCr

\* A branch with a stored CR number pushed a new patch set to
\* 'refs/changes/<cr>', and the stored number stayed.
PushedToStoredCr ==
    /\ lastRun.op = "update" /\ lastRun.err = ""
    /\ CrBefore(lastRun) = CrNumber(1)
    /\ RanCommand(lastRun, "git push")
    /\ PushSucceeded(lastRun)
    /\ branchConfig[IssueBranch].cr = CrNumber(1)
    /\ GerritQuery(gerrit, CrNumber(1)).currentPatchSet.number = 2

-----------------------------------------------------------------------------
(* Teardown.                                                               *)

\* The commands of a teardown that change the repository.
TeardownCommands ==
    {"git config --remove-section", "git checkout", "git branch -D"}

\* 'grr-' or 'grr/' followed by a non-empty suffix without a slash.
Conventional(b) == \E i \in IssueIds : b \in {"grr-" \o i, "grr/" \o i}

SameRepository(run) ==
    /\ gitBranch = run.pre.gitBranch
    /\ gitBranches = run.pre.gitBranches
    /\ branchConfig = run.pre.branchConfig
    /\ gitLog = run.pre.gitLog

\* C14: `grr -D` on master fails with the cannot-delete-on-master error and
\* changes nothing: it runs no remove-section, no checkout and no branch
\* deletion, and the repository is as before.
TeardownOnMasterIsRefused ==
    (lastRun.op = "delete" /\ lastRun.pre.gitBranch = MASTER) =>
        /\ lastRun.err = "cannot grr -D on branch master"
        /\ \A i \in 1..Len(lastRun.log) :
               lastRun.log[i][1] \notin TeardownCommands
        /\ SameRepository(lastRun)
        /\ gerrit = lastRun.pre.gerrit

\* `grr -D` was refused on master while an issue branch with a stored issue
\* existed.
RefusedOnMaster ==
    /\ lastRun.op = "delete" /\ lastRun.pre.gitBranch = MASTER
    /\ lastRun.err = "cannot grr -D on branch master"
    /\ "grr-FOO-1" \in gitBranches
    /\ branchConfig["grr-FOO-1"].issue = "FOO-1"

\* C15: `grr -D` on a branch named by the convention runs, in this order,
\* the removal of the branch's section, the checkout of master and the
\* force-delete of the branch, each only after the one before it; when it
\* succeeds the current branch is master, the branch is gone and nothing is
\* stored for it.
TeardownOfAnIssueBranch ==
    (lastRun.op = "delete" /\ Conventional(lastRun.pre.gitBranch)) =>
        LET b == lastRun.pre.gitBranch
            log == lastRun.log
            n == Len(log)
        IN  /\ \A i \in 1..n :
                   /\ log[i][1] = "git checkout" =>
                          /\ log[i] = <<"git checkout", MASTER>>
                          /\ log[i - 1] = <<"git config --remove-section", b>>
                   /\ log[i][1] = "git branch -D" =>
                          /\ log[i] = <<"git branch -D", b>>
                          /\ log[i - 1] = <<"git checkout", MASTER>>
            /\ lastRun.err = "" =>
                   /\ log[n] = <<"git branch -D", b>>
                   /\ gitBranch = MASTER
                   /\ b \notin gitBranches
                   /\ branchConfig[b] = EmptyConfig

\* A branch of the old form 'grr/<id>' with a stored issue was torn down.
ToreDownOldFormBranch ==
    /\ lastRun.op = "delete" /\ lastRun.err = ""
    /\ lastRun.pre.gitBranch = "grr/FOO-1"
    /\ lastRun.pre.branchConfig["grr/FOO-1"].issue = "FOO-1"
    /\ gitBranch = MASTER
    /\ "grr/FOO-1" \notin gitBranches
    /\ branchConfig["grr/FOO-1"] = EmptyConfig

\* C16: `grr -D` on a branch other than master whose name does not follow
\* the convention removes the branch's section and leaves the branches and
\* the current branch as they were, running no checkout and no branch
\* deletion; and no teardown deletes a 'grr/auto/<id>' branch.
TeardownLeavesOtherBranches ==
    lastRun.op = "delete" =>
        /\ (lastRun.pre.gitBranch # MASTER
                /\ ~Conventional(lastRun.pre.gitBranch)) =>
               /\ \A i \in 1..Len(lastRun.log) :
                      lastRun.log[i][1] \notin {"git checkout", "git branch -D"}
               /\ gitBranch = lastRun.pre.gitBranch
               /\ gitBranches = lastRun.pre.gitBranches
               /\ lastRun.err = "" =>
                      /\ RanCommand(lastRun, "git config --remove-section")
                      /\ branchConfig[lastRun.pre.gitBranch] = EmptyConfig
        /\ \A i \in IssueIds :
               "grr/auto/" \o i \in lastRun.pre.gitBranches =>
                   "grr/auto/" \o i \in gitBranches

\* `grr -D` on a left-over grr/auto branch with an issue stored for it
\* removed the section and left the branch checked out.
ToreDownOnlyTheMetadata ==
    /\ lastRun.op = "delete" /\ lastRun.err = ""
    /\ lastRun.pre.gitBranch = "grr/auto/FOO-1"
    /\ lastRun.pre.branchConfig["grr/auto/FOO-1"].issue = "FOO-1"
    /\ branchConfig["grr/auto/FOO-1"] = EmptyConfig
    /\ gitBranch = "grr/auto/FOO-1"

-----------------------------------------------------------------------------
(* Entering the issue branch and reconciling the primary issue.            *)

\* stepEnsureOnIssueBranch was reached.
ReachedIssueBranchStep(run) == run.op = "update" /\ run.arg.issueBranch # ""

EnteredIssueBranch(run) ==
    /\ ReachedIssueBranchStep(run)
    /\ run.err \notin {"a branch with that name already exists",
                        "git checkout failed"}

BranchAlreadyThere(run) ==
    /\ ReachedIssueBranchStep(run)
    /\ run.pre.gitBranch = MASTER
    /\ "grr-" \o run.arg.issueId \in run.pre.gitBranches

\* C18: on master, when 'grr-<primary id>' exists already, the run fails
\* with the branch-already-exists error after trying that one name only,
\* and leaves the current branch on master, the branches, the Branch
\* Metadata and Gerrit as they were.
ExistingBranchIsRefused ==
    BranchAlreadyThere(lastRun) =>
        /\ lastRun.err = "a branch with that name already exists"
        /\ \A i \in 1..Len(lastRun.log) :
               /\ lastRun.log[i][1] \in {"git checkout -b", "git checkout"} =>
                      lastRun.log[i]
                          = <<"git checkout -b", "grr-" \o lastRun.arg.issueId>>
               /\ lastRun.log[i][1] \notin {"git config --set", "git push"}
        /\ SameRepository(lastRun)
        /\ gitBranch = MASTER
        /\ gerrit = lastRun.pre.gerrit

\* `grr FOO-1` on master was refused because grr-FOO-1, with its stored
\* issue and a commit, existed.
RefusedExistingBranch ==
    /\ BranchAlreadyThere(lastRun)
    /\ lastRun.arg.issueId = "FOO-1"
    /\ lastRun.err = "a branch with that name already exists"
    /\ branchConfig["grr-FOO-1"].issue = "FOO-1"
    /\ Len(gitLog["grr-FOO-1"]) = 1
    /\ gitBranch = MASTER

\* ensureIssueId was reached: the steps before it had succeeded.
ReachedReconciliation(run) ==
    /\ run.op = "update"
    /\ RanCommand(run, "git remote")
    /\ run.err # "git remote failed"

IssueArgId(run) == parseIssueArg(RepoName, run.opts.issueArg).issueId

ReconciliationErrors ==
    {"issue conflict", "missing <issue> argument",
     "grr was not setup with an <issue> for this branch"}

\* C19: the reconciliation of the primary issue has four outcomes, decided
\* by the <issue> argument and the stored issue: both given and different,
\* the conflict error; neither, the missing-issue error, worded one way on
\* master and another elsewhere; only the stored one, it is adopted; an
\* argument not in conflict, it is used and, when the run succeeds, stored.
\* In the error cases no branch is created and no Branch Metadata written.
ReconciliationHasFourOutcomes ==
    ReachedReconciliation(lastRun) =>
        LET run == lastRun
            given == IssueArgId(run)
            stored == StoredIssue(run)
        IN  /\ (given # "" /\ stored # "" /\ given # stored) =>
                   run.err = "issue conflict"
            /\ (given = "" /\ stored = "") =>
                   run.err = IF run.pre.gitBranch = MASTER
                             THEN "missing <issue> argument"
                             ELSE "grr was not setup with an <issue> for this branch"
            /\ (given = "" /\ stored # "") =>
                   /\ run.err \notin ReconciliationErrors
                   /\ run.arg.issueId = stored
            /\ (given # "" /\ stored \in {"", given}) =>
                   /\ run.err \notin ReconciliationErrors
                   /\ run.arg.issueId = given
                   /\ run.err = "" =>
                          branchConfig[run.arg.issueBranch].issue = given
            /\ run.err \in ReconciliationErrors =>
                   /\ SameRepository(run)
                   /\ ~RanCommand(run, "git checkout -b")
                   /\ ~RanCommand(run, "git config --set")

\* Plain `grr` on a branch other than master with nothing stored got the
\* message that tells to run `grr <issue>`.
MissingIssueOffMaster ==
    /\ ReachedReconciliation(lastRun)
    /\ lastRun.opts.issueArg = ""
    /\ lastRun.pre.gitBranch = "feature"
    /\ StoredIssue(lastRun) = ""
    /\ lastRun.err = "grr was not setup with an <issue> for this branch"

-----------------------------------------------------------------------------
(* The form of the commit message.                                         *)

IsReviewedLine(line) == Len(line) >= 13 /\ SubSeq(line, 1, 13) = "Reviewed by: "
IsApprovedLine(line) == Len(line) >= 13 /\ SubSeq(line, 1, 13) = "Approved by: "

\* The position in the approvals list of the vote a trailer line is for.
VoteOf(line, votes) ==
    CHOOSE j \in 1..Len(votes) : IsTrailerOf(line, votes[j])

\* C20: the computed message is the line '<primary-name> <primary-title>',
\* ending in ' (<parenthetical>)' exactly when a parenthetical is stored;
\* then one line '<name> <title>' per stored extra issue, in stored order;
\* then nothing but trailers, the 'Reviewed by' ones before the 'Approved
\* by' ones and each group in the order of the approvals list; without a CR
\* or without a positive Code-Review or Integration-Approval vote there is
\* no trailer.
MessageHasTheStatedForm ==
    ComputedMessage(lastRun) =>
        LET run == lastRun
            msg == run.arg.commitMessage
            cfg == run.pre.branchConfig[run.pre.gitBranch]
            extras == cfg.extraIssues
            k == Len(extras)
            votes == VotesBefore(run)
            rest == SubSeq(msg, k + 2, Len(msg))
        IN  /\ Len(msg) >= k + 1
            /\ msg[1] = IF cfg.parenthetical = ""
                        THEN cfg.issue \o " " \o cfg.title
                        ELSE cfg.issue \o " " \o cfg.title \o " ("
                                 \o cfg.parenthetical \o ")"
            /\ \A i \in 1..k :
                   msg[1 + i] = extras[i].issueName \o " "
                                    \o extras[i].issueTitle
            /\ \A i \in 1..Len(rest) :
                   /\ IsTrailerLine(rest[i])
                   /\ \E j \in 1..Len(votes) : IsTrailerOf(rest[i], votes[j])
            /\ \A i, j \in 1..Len(rest) :
                   i < j =>
                       /\ ~(IsApprovedLine(rest[i]) /\ IsReviewedLine(rest[j]))
                       /\ IsReviewedLine(rest[i]) = IsReviewedLine(rest[j]) =>
                              VoteOf(rest[i], votes) < VoteOf(rest[j], votes)
            /\ (cfg.cr = ""
                   \/ ~\E j \in 1..Len(votes) :
                          /\ votes[j].type \in {"Code-Review",
                                                 "Integration-Approval"}
                          /\ PositiveValue(votes[j].value)) =>
                   rest = <<>>

\* A message with a parenthetical, two extra issues with FOO-3 stored
\* before FOO-2, and the trailer of the second vote, a Code-Review, before
\* that of the first, an Integration-Approval.
MessageOfFiveLines ==
    /\ ComputedMessage(lastRun)
    /\ lastRun.arg.commitMessage =
           <<"FOO-1 fix thing (fix make check)",
             "FOO-3 constant dhcp NAKs",
             "FOO-2 add node-triton support for bhyve",
             "Reviewed by: B <b@x>",
             "Approved by: A <a@x>">>

-----------------------------------------------------------------------------
(* Adding and removing extra issues.                                       *)

IdsOfArgs(args) ==
    {parseIssueArg(RepoName, args[i]).issueId : i \in 1..Len(args)}

IdsOf(extraIssues) == {extraIssues[i].issueId : i \in 1..Len(extraIssues)}

RemoveIds(run) == IdsOfArgs(run.opts.removeExtraIssueArgs)
AddIds(run) == IdsOfArgs(run.opts.addExtraIssueArgs)

\* The extra issues stored for the branch the invocation started on.
StoredExtras(run) == run.pre.branchConfig[run.pre.gitBranch].extraIssues

\* stepRemoveExtraIssues was reached: the primary issue is settled.
ReachedExtras(run) ==
    /\ ReachedReconciliation(run)
    /\ run.err \notin ReconciliationErrors
    /\ run.arg.issueId # ""

\* The invocation failed, and msg is the error or one of the errors it
\* failed with.
FailedWith(run, msg) ==
    /\ run.err # ""
    /\ run.err = msg \/ \E i \in 1..Len(run.errs) : run.errs[i] = msg

\* C21: a reconciliation whose -r arguments name the primary issue fails
\* with cannot-remove-main-issue, and one whose -a arguments name it (and
\* whose -r arguments do not) fails with cannot-add-main-issue-as-extra;
\* either way every branch's stored metadata, extraIssues included, is as
\* before.
MainIssueIsNoExtraIssue ==
    ReachedExtras(lastRun) =>
        LET primary == lastRun.arg.issueId
        IN  /\ primary \in RemoveIds(lastRun) =>
                   /\ lastRun.err = "cannot remove main issue"
                   /\ branchConfig = lastRun.pre.branchConfig
            /\ (primary \notin RemoveIds(lastRun)
                    /\ primary \in AddIds(lastRun)) =>
                   /\ FailedWith(lastRun,
                                 "cannot add main issue as an extra issue")
                   /\ branchConfig = lastRun.pre.branchConfig

\* `grr -a <primary>` on a branch with an extra issue stored was refused.
RefusedMainAsExtra ==
    /\ ReachedExtras(lastRun)
    /\ lastRun.arg.issueId \in AddIds(lastRun)
    /\ StoredExtras(lastRun) # <<>>
    /\ lastRun.err = "cannot add main issue as an extra issue"
    /\ branchConfig = lastRun.pre.branchConfig

\* The ids of the -a arguments, in the order given.
AddIdList(run) ==
    [i \in 1..Len(run.opts.addExtraIssueArgs) |->
        parseIssueArg(RepoName, run.opts.addExtraIssueArgs[i]).issueId]

\* The ids that stay after the removals of the invocation.
IdsAfterRemovals(run) == IdsOf(StoredExtras(run)) \ RemoveIds(run)

\* An -a argument names an id that stayed, or one an earlier -a argument
\* named.
AddsADuplicate(run) ==
    LET a == AddIdList(run)
    IN  \E i \in 1..Len(a) :
            \/ a[i] \in IdsAfterRemovals(run)
            \/ \E j \in 1..(i - 1) : a[j] = a[i]

\* stepParseExtraIssues was reached with -a arguments that do not name the
\* primary issue.
ReachedAdditions(run) ==
    /\ ReachedExtras(run)
    /\ run.arg.issueId \notin RemoveIds(run) \cup AddIds(run)

\* C22: adding an extra issue whose id is in the extra issues as they stand
\* after the removals of the same invocation, or that an earlier -a argument
\* names, fails with duplicate-extra-issue and changes no stored metadata;
\* otherwise no duplicate is reported, so that an id both removed and added
\* in one invocation is accepted and stored.
DuplicatesAreRefusedAfterRemovals ==
    ReachedAdditions(lastRun) =>
        IF AddsADuplicate(lastRun)
        THEN /\ FailedWith(lastRun, "duplicate extra issue")
             /\ branchConfig = lastRun.pre.branchConfig
        ELSE /\ ~FailedWith(lastRun, "duplicate extra issue")
             /\ (lastRun.err = "" /\ AddIds(lastRun) # {}) =>
                    IdsOf(branchConfig[lastRun.arg.issueBranch].extraIssues)
                        = IdsAfterRemovals(lastRun) \cup AddIds(lastRun)

\* `grr -r FOO-2 -a FOO-2` with FOO-2 among the stored extra issues
\* succeeded and FOO-2 is stored.
RemovedAndAddedAgain ==
    /\ ReachedAdditions(lastRun) /\ lastRun.err = ""
    /\ "FOO-2" \in IdsOf(StoredExtras(lastRun))
    /\ "FOO-2" \in RemoveIds(lastRun) \cap AddIds(lastRun)
    /\ "FOO-2" \in IdsOf(branchConfig[gitBranch].extraIssues)

\* C23: repeating an invocation with the same -a and -r arguments leaves
\* every branch's stored extraIssues as the first invocation left it: no
\* entry twice, none back.
RepeatKeepsTheExtraIssues ==
    (lastRun.op = "update" /\ lastRun.again) =>
        \A b \in BranchNames :
            branchConfig[b].extraIssues
                = lastRun.pre.branchConfig[b].extraIssues

\* `grr -r FOO-2 -a FOO-2`, having succeeded, was repeated and succeeded
\* again with FOO-2 stored once.
RepeatedRemoveAndAdd ==
    /\ lastRun.op = "update" /\ lastRun.again /\ lastRun.prevOk
    /\ lastRun.err = ""
    /\ "FOO-2" \in RemoveIds(lastRun) \cap AddIds(lastRun)
    /\ Len(branchConfig[gitBranch].extraIssues) = 1
    /\ IdsOf(branchConfig[gitBranch].extraIssues) = {"FOO-2"}

\* How often the invocation fetched the primary issue's title.
PrimaryTitleFetches(run) ==
    Cardinality({i \in 1..Len(run.log) :
                    run.log[i] = <<"getIssueTitle", run.arg.issueId>>})

\* The title stored for the branch the invocation started on.
StoredTitle(run) == run.pre.branchConfig[run.pre.gitBranch].title

TitleNeeded(run) == StoredTitle(run) = "" \/ run.opts.update

\* C24: an invocation fetches the primary issue's title at most once, and
\* only when no title is stored for the branch or -u is given; once
\* stepGetIssueTitle is through, the title was fetched exactly in those
\* cases, and otherwise the title in use is the stored one.
PrimaryTitleFetchedOnlyWhenNeeded ==
    lastRun.op = "update" =>
        /\ PrimaryTitleFetches(lastRun) <= 1
        /\ PrimaryTitleFetches(lastRun) = 1 => TitleNeeded(lastRun)
        /\ lastRun.arg.issueTitle # "" =>
               IF TitleNeeded(lastRun)
               THEN PrimaryTitleFetches(lastRun) = 1
               ELSE /\ PrimaryTitleFetches(lastRun) = 0
                    /\ lastRun.arg.issueTitle = StoredTitle(lastRun)

\* `grr -u` on a branch with a stored title fetched the title once.
RefetchedTheStoredTitle ==
    /\ lastRun.op = "update" /\ lastRun.err = ""
    /\ lastRun.opts.update /\ StoredTitle(lastRun) # ""
    /\ PrimaryTitleFetches(lastRun) = 1

-----------------------------------------------------------------------------
(* Starting on master.                                                     *)

StartedOnMaster(run) == run.op = "update" /\ run.pre.gitBranch = MASTER

\* C25: a reconciliation started on master never pushes: it takes no action
\* but 'none', squashes and pushes nothing and leaves Gerrit and every
\* branch's lastPushedSha and cr as they were; when it succeeds, the branch
\* it created is checked out with no commit over master and with neither
\* lastPushedSha nor cr stored.
StartingOnMasterNeverPushes ==
    StartedOnMaster(lastRun) =>
        /\ lastRun.arg.crAction \in {"", "none"}
        /\ ~Squashed(lastRun) /\ ~Pushed(lastRun)
        /\ gerrit = lastRun.pre.gerrit
        /\ \A b \in BranchNames :
               /\ branchConfig[b].lastPushedSha
                      = lastRun.pre.branchConfig[b].lastPushedSha
               /\ branchConfig[b].cr = lastRun.pre.branchConfig[b].cr
        /\ lastRun.err = "" =>
               /\ lastRun.arg.crAction = "none"
               /\ gitBranch = lastRun.arg.issueBranch
               /\ gitBranch \notin lastRun.pre.gitBranches
               /\ lastRun.arg.gitCommits = <<>>
               /\ gitLog[gitBranch] = <<>>
               /\ branchConfig[gitBranch].lastPushedSha = ""
               /\ branchConfig[gitBranch].cr = ""

\* `grr FOO-2` on master created grr-FOO-2, stored the issue and did nothing
\* more.
CreatedTheBranchOnly ==
    /\ StartedOnMaster(lastRun) /\ lastRun.err = ""
    /\ gitBranch = "grr-FOO-2"
    /\ branchConfig[gitBranch].issue = "FOO-2"
    /\ lastRun.arg.crAction = "none"

-----------------------------------------------------------------------------
(* The author of the squashed commit.                                      *)

\* C26: whenever the action is 'create', 'update' or 'updateCommitMessage'
\* there is a local commit over master, so the author given to the squashed
\* commit, that of the newest local commit, is defined and the invocation
\* does not throw.
SquashAuthorIsDefined ==
    (lastRun.op = "update"
        /\ lastRun.arg.crAction
              \in {"create", "update", "updateCommitMessage"}) =>
        /\ lastRun.arg.gitCommits # <<>>
        /\ ~lastRun.crashed

-----------------------------------------------------------------------------
(* What the invocation stores.                                             *)

\* C27: after a successful reconciliation no stored extra issue that its -r
\* arguments name, and its -a arguments do not, is among the extra issues
\* stored for the issue branch.
RemovedExtraIssueIsGone ==
    (ReachedExtras(lastRun) /\ lastRun.err = "") =>
        \A id \in (IdsOf(StoredExtras(lastRun)) \cap RemoveIds(lastRun))
                      \ AddIds(lastRun) :
            id \notin IdsOf(branchConfig[lastRun.arg.issueBranch].extraIssues)

\* The invocation ran `git config` to store the field for its issue branch.
WroteField(run, field) ==
    \E i \in 1..Len(run.log) :
        run.log[i] = <<"git config --set", run.arg.issueBranch, field>>

PersistedFields == {"issue", "extraIssues", "title", "parenthetical"}

\* C28: a reconciliation writes issue, extraIssues, title or parenthetical
\* only when the value it writes differs from the one it read at its start,
\* so that one that changes none of them writes none.
FieldsAreWrittenOnlyWhenChanged ==
    lastRun.op = "update" =>
        \A f \in PersistedFields :
            WroteField(lastRun, f) =>
                branchConfig[lastRun.arg.issueBranch][f]
                    # lastRun.pre.branchConfig[lastRun.pre.gitBranch][f]

-----------------------------------------------------------------------------
(* The parallel title fetches.                                             *)

FetchFailure == [status |-> "fail", err |-> "could not retrieve issue info"]

\* One of the title fetches of the extra issues failed.
AFetchFailed(run) ==
    \E i \in 1..Len(run.operations) : run.operations[i] = FetchFailure

AllFetched(run) ==
    \A i \in 1..Len(run.operations) : run.operations[i].status = "ok"

\* No branch was entered and nothing was stored since the invocation began.
NothingEnteredOrStored(run) ==
    /\ gitBranch = run.pre.gitBranch
    /\ gitBranches = run.pre.gitBranches
    /\ branchConfig = run.pre.branchConfig
    /\ ~RanCommand(run, "git checkout -b")
    /\ ~RanCommand(run, "git config --set")

\* C29: in whatever order the title fetches of the extra issues call back,
\* no branch is entered and nothing is stored while one is outstanding; if
\* one of them failed the invocation fails with its error, having entered
\* no branch and stored nothing; if all of them succeeded every extra issue
\* has its title; and no extra issue is ever stored without a title.
ExtraIssueTitlesAreAllOrNothing ==
    /\ lastRun.op = "fetching" => NothingEnteredOrStored(lastRun)
    /\ (lastRun.op = "update" /\ lastRun.operations # <<>>) =>
           IF AFetchFailed(lastRun)
           THEN /\ FailedWith(lastRun, "could not retrieve issue info")
                /\ NothingEnteredOrStored(lastRun)
           ELSE AllFetched(lastRun) =>
                    /\ lastRun.err \notin {"duplicate extra issue",
                                           "could not retrieve issue info"}
                    /\ \A i \in 1..Len(lastRun.arg.extraIssues) :
                           LET issue == lastRun.arg.extraIssues[i]
                           IN  issue.issueTitle = TrackerTitle(issue.issueId)
    /\ \A b \in BranchNames :
           \A i \in 1..Len(branchConfig[b].extraIssues) :
               branchConfig[b].extraIssues[i].issueTitle # ""

\* `grr -a FOO-2,FOO-3 FOO-1` on master: FOO-2's title was fetched, FOO-3's
\* fetch failed, and the invocation failed on master with nothing stored.
OneFetchedOneFailed ==
    /\ lastRun.op = "update" /\ lastRun.pre.gitBranch = MASTER
    /\ Len(lastRun.operations) = 2
    /\ lastRun.operations[1].status = "ok"
    /\ lastRun.operations[2] = FetchFailure
    /\ lastRun.arg.extraIssues[1].issueTitle # ""
    /\ lastRun.err = "could not retrieve issue info"
    /\ NothingEnteredOrStored(lastRun)

-----------------------------------------------------------------------------
(* The titles of the extra issues.                                         *)

\* How often the invocation fetched the title of the issue.
TitleFetches(run, id) ==
    Cardinality({i \in 1..Len(run.log) :
                    run.log[i] = <<"getIssueTitle", id>>})

\* The ids of the stored extra issues that have a title stored with them.
IdsWithStoredTitle(run) ==
    {StoredExtras(run)[i].issueId :
        i \in {j \in 1..Len(StoredExtras(run)) :
                  StoredExtras(run)[j].issueTitle # ""}}

\* C30, as the claim states it: an extra issue that stays and whose title
\* is stored triggers no fetch.
StoredTitlesAreNotFetched ==
    ReachedAdditions(lastRun) =>
        \A id \in IdsWithStoredTitle(lastRun) \ RemoveIds(lastRun) :
            TitleFetches(lastRun, id) = 0

\* C30, amended: stepParseExtraIssues fetches the title of every extra
\* issue but the primary one, stored or added, once on every invocation,
\* whether a title is stored with it or not; an issue given twice is fetched
\* once.
EveryExtraIssueTitleIsFetched ==
    (ReachedExtras(lastRun)
        /\ lastRun.arg.issueId \notin RemoveIds(lastRun)) =>
        /\ \A id \in (IdsAfterRemovals(lastRun) \cup AddIds(lastRun))
                      \ {lastRun.arg.issueId} :
               TitleFetches(lastRun, id) = 1
        /\ \A i \in 1..Len(lastRun.log) :
               lastRun.log[i][1] = "getIssueTitle" =>
                   lastRun.log[i][2] \in IdsAfterRemovals(lastRun)
                       \cup AddIds(lastRun) \cup {lastRun.arg.issueId}

\* A plain `grr` on a branch with FOO-2 and its title stored fetched FOO-2's
\* title.
FetchedAStoredTitle ==
    /\ ReachedAdditions(lastRun) /\ lastRun.err = ""
    /\ lastRun.opts.addExtraIssueArgs = <<>>
    /\ lastRun.opts.removeExtraIssueArgs = <<>>
    /\ "FOO-2" \in IdsWithStoredTitle(lastRun)
    /\ TitleFetches(lastRun, "FOO-2") = 1

-----------------------------------------------------------------------------
(* The error stepCreateUpdateCr reports.                                   *)

-----------------------------------------------------------------------------
(* The comment on the CR.                                                  *)

\* The places in the invocation's log where it posted a comment.
Comments(run) ==
    {i \in 1..Len(run.log) : run.log[i][1] = "ssh gerrit review"}

\* C32: an invocation posts a comment only when its action is 'create' or
\* 'update', and then it does post one unless a step before the comment
\* failed; the comment comes after the push, the store of lastPushedSha
\* and the second query of the CR, in that order, the push having reached
\* Gerrit and lastPushedSha being stored; it names the stored CR number,
\* the patch set Gerrit has for it after the push, and the commits to push.
CommentFollowsThePushedCommits ==
    lastRun.op = "update" =>
        LET log == lastRun.log
            b == lastRun.arg.issueBranch
            cr == branchConfig[b].cr
        IN  /\ Cardinality(Comments(lastRun)) <= 1
            /\ Comments(lastRun) # {} =>
                   lastRun.arg.crAction \in {"create", "update"}
            /\ (Began(lastRun) /\ lastRun.pipelineErr = ""
                    /\ lastRun.arg.crAction \in {"create", "update"}) =>
                   Comments(lastRun) # {}
            /\ \A n \in Comments(lastRun) :
                   /\ \E i, j, k \in 1..n :
                          /\ i < j /\ j < k /\ k < n
                          /\ log[i][1] = "git push"
                          /\ log[j] = <<"git config --set", b,
                                        "lastPushedSha">>
                          /\ log[k] = <<"ssh gerrit query", cr>>
                   /\ PushSucceeded(lastRun)
                   /\ branchConfig[b].lastPushedSha
                          = LogBefore(lastRun)[1].sha
                   /\ cr # ""
                   /\ log[n] =
                          <<"ssh gerrit review", cr,
                            Digits[GerritQuery(gerrit, cr)
                                       .currentPatchSet.number]>>
                          \o Shas(lastRun.arg.commitsToPush.commits)
                   /\ lastRun.arg.commitsToPush.commits # <<>>

\* The second commit of a branch was pushed to its CR as patch set 2 and
\* the comment names that commit and patch set.
CommentedOnSecondPatchSet ==
    /\ lastRun.op = "update" /\ lastRun.err = ""
    /\ lastRun.arg.crAction = "update"
    /\ \E n \in Comments(lastRun) :
           lastRun.log[n] = <<"ssh gerrit review", CrNumber(1), "2", ShaOf(2)>>

-----------------------------------------------------------------------------
(* The CR as Gerrit reports it.                                            *)

QueryMismatchErrors ==
    {"gerrit query returned a hit for another project",
     "gerrit query returned a hit for another CR"}

\* The invocation read the local commits: stepGetCurrentCr comes next.
ReachedCurrentCr(run) == run.op = "update" /\ RanCommand(run, "git log")

\* The places in the invocation's log of the queries and of the pushes.
Queries(run) ==
    {i \in 1..Len(run.log) : run.log[i][1] = "ssh gerrit query"}
Pushes(run) == {i \in 1..Len(run.log) : run.log[i][1] = "git push"}

\* C33: a record the query returns is taken for the current CR only if its
\* project is the repository's name and its number the stored one; an
\* invocation ending with a mismatch of the first query has squashed and
\* pushed nothing and leaves lastPushedSha and cr as they were; with no CR
\* number stored no query is made before a push and the action is decided
\* as for a branch without a CR.
CurrentCrIsTheStoredOne ==
    ReachedCurrentCr(lastRun) =>
        /\ lastRun.arg.currentCr # NullCr =>
               /\ lastRun.arg.currentCr.project = lastRun.arg.repoName
               /\ lastRun.arg.currentCr.number
                      = branchConfig[lastRun.arg.issueBranch].cr
               /\ lastRun.arg.currentCr.number # ""
        /\ (lastRun.err \in QueryMismatchErrors /\ ~Began(lastRun)) =>
               /\ CrBefore(lastRun) # ""
               /\ lastRun.log[Len(lastRun.log)]
                      = <<"ssh gerrit query", CrBefore(lastRun)>>
               /\ lastRun.arg.crAction = ""
               /\ ~Squashed(lastRun) /\ ~Pushed(lastRun)
               /\ gerrit = lastRun.pre.gerrit
               /\ \A b \in BranchNames :
                      /\ branchConfig[b].lastPushedSha
                             = lastRun.pre.branchConfig[b].lastPushedSha
                      /\ branchConfig[b].cr = lastRun.pre.branchConfig[b].cr
        /\ CrBefore(lastRun) = "" =>
               /\ \A q \in Queries(lastRun) :
                      \E p \in Pushes(lastRun) : p < q
               /\ lastRun.arg.crAction \in {"", "none", "create"}
        /\ (CrBefore(lastRun) # "" /\ lastRun.arg.crAction # "") =>
               \E q \in Queries(lastRun) :
                   /\ lastRun.log[q] = <<"ssh gerrit query", CrBefore(lastRun)>>
                   /\ \A p \in Pushes(lastRun) : q < p

\* The query for the stored CR returned a record of another project, and the
\* invocation stopped there with a commit still to push.
RefusedAnotherProjectsCr ==
    /\ ReachedCurrentCr(lastRun)
    /\ lastRun.err = "gerrit query returned a hit for another project"
    /\ CrBefore(lastRun) = CrNumber(1)
    /\ Len(LogBefore(lastRun)) = 2
    /\ LastPushedShaBefore(lastRun) = ShaOf(1)
    /\ ~Pushed(lastRun)
    /\ branchConfig[IssueBranch].lastPushedSha = ShaOf(1)

-----------------------------------------------------------------------------
(* A change of the commit message alone.                                   *)

\* What an invocation whose action is 'updateCommitMessage' is to do: squash
\* the issue branch, push the squash to the stored CR, which so gets a new
\* patch set carrying the recomputed message, post no comment, and leave
\* lastPushedSha and cr as stored.
MessageOnlyPush(run) ==
    LET b == run.arg.issueBranch
        cr == CrBefore(run)
    IN  /\ ~run.crashed
        /\ Squashed(run)
        /\ \E i \in 1..Len(run.log) :
               run.log[i] = <<"git push", "cr", "HEAD:refs/changes/" \o cr>>
        /\ Cardinality(Pushes(run)) = 1
        /\ Len(gerrit) = Len(run.pre.gerrit)
        /\ GerritQuery(gerrit, cr).commitMessage
               = run.arg.commitMessage \o <<"">>
        /\ GerritQuery(gerrit, cr).currentPatchSet.number
               = GerritQuery(run.pre.gerrit, cr).currentPatchSet.number + 1
        /\ Comments(run) = {}
        /\ branchConfig[b].lastPushedSha = run.pre.branchConfig[b].lastPushedSha
        /\ branchConfig[b].cr = cr

\* C34: with every external command succeeding, an invocation whose action
\* is 'updateCommitMessage' squashes the issue branch and pushes a new patch
\* set with the recomputed message to refs/changes/<cr> of the stored CR,
\* posts no comment and leaves the stored lastPushedSha and cr unchanged.
CommitMessageUpdateIsPushed ==
    (lastRun.op = "update" /\ lastRun.arg.crAction = "updateCommitMessage") =>
        MessageOnlyPush(lastRun)

\* The same of the invocations that have a local commit to take the squash's
\* author from.
CommitMessageUpdateIsPushedGivenACommit ==
    (lastRun.op = "update" /\ lastRun.arg.crAction = "updateCommitMessage"
        /\ LogBefore(lastRun) # <<>>) =>
        MessageOnlyPush(lastRun)

\* A reviewer's vote changed the message of a branch whose commits are all
\* pushed, and the new message was pushed as patch set 2.
PushedTheMessageAlone ==
    /\ lastRun.op = "update" /\ lastRun.arg.crAction = "updateCommitMessage"
    /\ lastRun.err = ""
    /\ Len(LogBefore(lastRun)) = 2
    /\ MessageOnlyPush(lastRun)

-----------------------------------------------------------------------------
(* One CR for a branch.                                                    *)

\* The invocation that has just ended created a CR.
CreatedACr == Len(gerrit') > Len(gerrit)

\* C35: no invocation of `grr` overwrites a CR number stored for a branch;
\* Gerrit loses no CR; an invocation creates a CR only for a branch that has no CR number
\* stored, creates one only, and unless one of its steps failed has then
\* stored the new CR's number for the branch, so that of the invocations on
\* a branch that follow one another without a failure at most one creates
\* a CR; and every push of an invocation on a branch with a stored CR
\* number goes to that CR.
OneCrForABranch ==
    [][/\ lastRun'.op = "update" =>
              \A b \in BranchNames :
                  branchConfig[b].cr # "" =>
                      branchConfig'[b].cr = branchConfig[b].cr
       /\ Len(gerrit') >= Len(gerrit)
       /\ \A i \in 1..Len(gerrit) :
              /\ gerrit'[i].number = gerrit[i].number
              /\ gerrit'[i].project = gerrit[i].project
       /\ CreatedACr =>
              LET b == lastRun'.arg.issueBranch
              IN  /\ lastRun'.op = "update" /\ Began(lastRun')
                  /\ branchConfig[b].cr = ""
                  /\ Len(gerrit') = Len(gerrit) + 1
                  /\ lastRun'.pipelineErr = "" =>
                         branchConfig'[b].cr = gerrit'[Len(gerrit')].number
       /\ (lastRun'.op = "update" /\ lastRun' # lastRun
               /\ lastRun'.arg.issueBranch \in BranchNames
               /\ branchConfig[lastRun'.arg.issueBranch].cr # "") =>
              \A p \in Pushes(lastRun') :
                  lastRun'.log[p] =
                      <<"git push", "cr",
                        "HEAD:refs/changes/"
                            \o branchConfig[lastRun'.arg.issueBranch].cr>>
      ]_vars

\* An invocation on a branch whose CR had been created before pushed the
\* branch's second commit there: Gerrit still has that CR only and the
\* stored number is the same.
SecondCommitWentToTheSameCr ==
    /\ lastRun.op = "update" /\ lastRun.err = ""
    /\ lastRun.arg.crAction = "update"
    /\ CrBefore(lastRun) = CrNumber(1)
    /\ LastPushedShaBefore(lastRun) = ShaOf(1)
    /\ Len(lastRun.pre.gerrit) = 1 /\ Len(gerrit) = 1
    /\ gerrit[1].number = CrNumber(1)
    /\ gerrit[1].currentPatchSet.number
           = lastRun.pre.gerrit[1].currentPatchSet.number + 1
    /\ branchConfig[IssueBranch].cr = CrNumber(1)

-----------------------------------------------------------------------------
(* lastPushedSha and cr together.                                          *)

\* C36: in every state that invocations of `grr` and `grr -D` lead to, a
\* branch for which a lastPushedSha is stored has a CR number stored too.
LastPushedShaOnlyWithCr ==
    \A b \in BranchNames :
        branchConfig[b].lastPushedSha # "" => branchConfig[b].cr # ""

\* The first `grr` with a commit on the branch created the CR and stored
\* both its number and the newest commit's sha.
StoredShaAndCrOnCreate ==
    /\ lastRun.op = "update" /\ lastRun.err = ""
    /\ lastRun.arg.crAction = "create"
    /\ LastPushedShaBefore(lastRun) = "" /\ CrBefore(lastRun) = ""
    /\ branchConfig[lastRun.arg.issueBranch].lastPushedSha
           = LogBefore(lastRun)[1].sha
    /\ branchConfig[lastRun.arg.issueBranch].cr = CrNumber(1)

-----------------------------------------------------------------------------
(* Failures before the issue branch is entered.                            *)

\* The invocation failed in a step before stepEnsureOnIssueBranch, the step
\* that sets arg.issueBranch before anything else.
FailedBeforeEntry(run) ==
    run.op = "update" /\ run.err # "" /\ run.arg.issueBranch = ""

\* C37: an invocation that fails in a step before stepEnsureOnIssueBranch
\* has created no branch, leaves the current branch as it was and has
\* written no key of any branch's metadata.
EarlyFailureLeavesTheBranches ==
    FailedBeforeEntry(lastRun) =>
        /\ gitBranches = lastRun.pre.gitBranches
        /\ gitBranch = lastRun.pre.gitBranch
        /\ branchConfig = lastRun.pre.branchConfig
        /\ \A i \in 1..Len(lastRun.log) :
               lastRun.log[i][1] \notin {"git config --set", "git checkout -b"}

\* On master, `grr FOO-1` could not fetch the title of FOO-1: no branch
\* grr-FOO-1 and nothing stored.
TitleFetchFailedOnMaster ==
    /\ FailedBeforeEntry(lastRun)
    /\ lastRun.pre.gitBranch = MASTER
    /\ lastRun.opts.issueArg = "FOO-1"
    /\ lastRun.err = "could not retrieve issue info"
    /\ "grr-FOO-1" \notin gitBranches
    /\ gitBranch = MASTER

-----------------------------------------------------------------------------
(* What a failed squash or push leaves stored.                             *)

\* The places in the invocation's log of its writes of issue, extraIssues,
\* title and parenthetical, of its read of the local commits and of the
\* commands of its squash and push.
FieldWrites(run) ==
    {i \in 1..Len(run.log) :
        /\ run.log[i][1] = "git config --set"
        /\ run.log[i][3] \in PersistedFields}
CommitReads(run) == {i \in 1..Len(run.log) : run.log[i][1] = "git log"}
SquashAndPush(run) ==
    {i \in 1..Len(run.log) :
        run.log[i][1] \in {"git checkout -t -b", "git merge --squash",
                           "git commit --author", "git push"}}

\* The four fields as the invocation reconciled them are the stored ones,
\* they were written before the local commits were read and before the
\* squash and the push, and lastPushedSha and cr are as they were.
FieldsStoredBeforeThePush(run) ==
    LET b == run.arg.issueBranch
    IN  /\ branchConfig[b].issue = run.arg.issueId
        /\ branchConfig[b].title = run.arg.issueTitle
        /\ branchConfig[b].extraIssues = run.arg.extraIssues
        /\ branchConfig[b].parenthetical =
               IF run.opts.parenthetical # "" THEN run.opts.parenthetical
               ELSE run.pre.branchConfig[b].parenthetical
        /\ \A i \in FieldWrites(run) :
               /\ \A j \in CommitReads(run) : i < j
               /\ \A j \in SquashAndPush(run) : i < j
        /\ CommitReads(run) # {}
        /\ \A i \in CommitReads(run), j \in SquashAndPush(run) : i < j
        /\ branchConfig[b].lastPushedSha = run.pre.branchConfig[b].lastPushedSha
        /\ branchConfig[b].cr = run.pre.branchConfig[b].cr

\* C38: an invocation whose squash or push fails leaves issue, extraIssues,
\* title and parenthetical stored as it reconciled them, having written
\* them before it read the local commits and before the squash and the
\* push, and leaves lastPushedSha and cr unchanged.
FailedPushKeepsTheReconciledFields ==
    SquashOrPushFailed(lastRun) => FieldsStoredBeforeThePush(lastRun)

\* The same of the invocations that do not end with an empty list of extra
\* issues for a branch that has some stored.
FailedPushKeepsTheFieldsUnlessExtrasEmptied ==
    (SquashOrPushFailed(lastRun)
        /\ (lastRun.arg.extraIssues # <<>>
               \/ lastRun.pre.branchConfig[lastRun.arg.issueBranch].extraIssues
                      = <<>>)) =>
        FieldsStoredBeforeThePush(lastRun)

\* `grr -p ...` stored the parenthetical and then failed to push.
StoredParentheticalThenPushFailed ==
    /\ SquashOrPushFailed(lastRun)
    /\ lastRun.err = "git push failed"
    /\ lastRun.opts.parenthetical = "fix make check"
    /\ lastRun.pre.branchConfig[lastRun.arg.issueBranch].parenthetical = ""
    /\ branchConfig[lastRun.arg.issueBranch].parenthetical = "fix make check"

-----------------------------------------------------------------------------
(* The parenthetical.                                                      *)

ParentheticalBefore(run, b) == run.pre.branchConfig[b].parenthetical

\* C39: an invocation of `grr` changes a branch's stored parenthetical only
\* when it is given a non-empty parenthetical other than the stored one,
\* which it then stores for its issue branch; given none it keeps the stored
\* one, and the first line of the commit message it computes ends with the
\* stored parenthetical in brackets; it never clears a stored parenthetical.
ParentheticalIsSticky ==
    lastRun.op = "update" =>
        /\ \A b \in BranchNames :
               /\ branchConfig[b].parenthetical # ParentheticalBefore(lastRun, b)
                      => /\ lastRun.opts.parenthetical # ""
                         /\ lastRun.opts.parenthetical
                                # ParentheticalBefore(lastRun, b)
                         /\ branchConfig[b].parenthetical
                                = lastRun.opts.parenthetical
                         /\ b = lastRun.arg.issueBranch
               /\ ParentheticalBefore(lastRun, b) # ""
                      => branchConfig[b].parenthetical # ""
        /\ (lastRun.opts.parenthetical = ""
                /\ lastRun.arg.commitMessage # <<>>) =>
               LET b == lastRun.arg.issueBranch
                   stored == ParentheticalBefore(lastRun, b)
               IN  /\ branchConfig[b].parenthetical = stored
                   /\ lastRun.arg.commitMessage[1] =
                          lastRun.arg.issueName \o " " \o lastRun.arg.issueTitle
                              \o (IF stored # "" THEN " (" \o stored \o ")"
                                  ELSE "")
        /\ (lastRun.err = "" /\ lastRun.opts.parenthetical # "") =>
               branchConfig[lastRun.arg.issueBranch].parenthetical
                   = lastRun.opts.parenthetical

\* A plain `grr` on a branch whose parenthetical an earlier `grr -p` had
\* replaced computed a message that carries it, and left it stored.
KeptTheParenthetical ==
    /\ lastRun.op = "update" /\ lastRun.err = ""
    /\ lastRun.opts.parenthetical = ""
    /\ ParentheticalBefore(lastRun, IssueBranch) = "take two"
    /\ branchConfig[IssueBranch].parenthetical = "take two"
    /\ lastRun.arg.commitMessage[1] = "FOO-1 fix thing (take two)"

-----------------------------------------------------------------------------
(* One run of every step, one signal, one outcome.                         *)

\* The functions of stepCreateUpdateCr's pipeline in their order, and last
\* stepCreateUpdateCr itself, which completes once the clean up has run.
CreateUpdateCrOrder ==
    <<"getBranches", "printOpener", "squashEm", "pushIt", "setLastPushedSha",
      "stepSetBranchConfigLastPushedSha", "stepGetCurrentCr",
      "addCommitMessagesToCr", "stepCreateUpdateCr">>

PlaceOf(step) ==
    CHOOSE k \in 1..Len(CreateUpdateCrOrder) : CreateUpdateCrOrder[k] = step

\* An invocation that has ended did not end in an exception; no step of it
\* signalled its completion twice, stepCreateUpdateCr included, so that it
\* reported one outcome; the steps completed in the pipeline's order; after
\* a step that failed only stepCreateUpdateCr itself, after its clean up,
\* completed; and no command was run again right after it was run.
EndedInOrder(run) ==
    LET sig == run.signals
    IN  /\ ~run.crashed
        /\ \A i, j \in 1..Len(sig) :
               i < j => /\ sig[i][1] # sig[j][1]
                        /\ PlaceOf(sig[i][1]) < PlaceOf(sig[j][1])
                        /\ sig[i][2] # "" => sig[j][1] = "stepCreateUpdateCr"
        /\ \A i \in 1..(Len(run.log) - 1) : run.log[i] # run.log[i + 1]

\* C40: every invocation ends by reporting one outcome, success or one
\* error; within it every step runs at most once and in the pipeline's
\* order and signals its completion exactly once, no command is retried,
\* and after the first failing step no later step runs but the clean up.
EveryStepSignalsOnce ==
    lastRun.op = "update" => EndedInOrder(lastRun)

\* The same of the invocations in which `git branch --list` succeeds and
\* which have a local commit when they squash.
EveryStepSignalsOnceGivenTheBranches ==
    (lastRun.op = "update"
        /\ lastRun.pipelineErr # "git branch --list failed"
        /\ ~(lastRun.crashed /\ LogBefore(lastRun) = <<>>)) =>
        EndedInOrder(lastRun)

\* `git branch --list` failed, getBranches signalled twice and the
\* invocation ended in an exception.
ListingFailedAndSignalledTwice ==
    /\ lastRun.op = "update" /\ lastRun.crashed
    /\ lastRun.pipelineErr = "git branch --list failed"
    /\ lastRun.signals = <<<<"getBranches", "git branch --list failed">>,
                           <<"getBranches", "">>>>

\* An invocation pushed and commented: its nine signals came in order.
SignalledAllInOrder ==
    /\ lastRun.op = "update" /\ lastRun.err = ""
    /\ Len(lastRun.signals) = Len(CreateUpdateCrOrder)
    /\ \A k \in 1..Len(CreateUpdateCrOrder) :
           lastRun.signals[k] = <<CreateUpdateCrOrder[k], "">>

====
